---- MODULE Spec2Model ----
(***************************************************************************)
(* Model of the weight engines of ssv-strategy-weights                     *)
(* (src/src/services/simulation-utils.ts, src/src/services/sdk.ts).        *)
(*                                                                         *)
(* JavaScript numbers are modelled as extended rationals: a finite value   *)
(* n/d in lowest terms, or one of NaN, +Infinity, -Infinity, with the      *)
(* IEEE-754 rules for the operations the engines use.  Rounding is not     *)
(* modelled: the finite part of the arithmetic is exact.                   *)
(***************************************************************************)
EXTENDS Integers, Sequences, FiniteSets, TLC

(***************************************************************************)
(* Bounds of the model.                                                    *)
(***************************************************************************)
MaxStrategies == 2

MaxSimulationStrategies == 2

\* how many times the user changes a bAppId
MaxBAppChanges == 3

\* how many calls of fetchStrategies start
MaxFetches == 3

\* how many delegated balances the user changes
MaxDelegatedChanges == 3

\* how many tokenWeights a strategy of the list has at most
MaxTokenWeights == 3

\* how many times the user changes the token coefficients
MaxCoefficientChanges == 2

(***************************************************************************)
(* JavaScript numbers.                                                     *)
(***************************************************************************)
Abs(x) == IF x < 0 THEN -x ELSE x

\* The arithmetic is written as functions, which TLC applies to evaluated
\* arguments, under operators of the same name without the F.
GCDF[a \in Nat, b \in Nat] == IF b = 0 THEN a ELSE GCDF[b, a % b]

GCD(a, b) == GCDF[a, b]

NaN == [k |-> "nan", n |-> 0, d |-> 1]

PosInfinity == [k |-> "inf", n |-> 1, d |-> 1]

NegInfinity == [k |-> "inf", n |-> -1, d |-> 1]

undefined == [k |-> "undefined", n |-> 0, d |-> 1]

Nums == [k : {"fin", "nan", "inf", "undefined"}, n : Int, d : Int]

\* the finite number n/d (d # 0), in lowest terms with a positive denominator
FinF[n \in Int, d \in Int] ==
  LET g == GCD(Abs(n), Abs(d))
      s == IF d < 0 THEN -1 ELSE 1
  IN [k |-> "fin", n |-> (s * n) \div g, d |-> (s * d) \div g]

Fin(n, d) == FinF[n, d]

Int2Num(i) == [k |-> "fin", n |-> i, d |-> 1]

Zero == Int2Num(0)

One == Int2Num(1)

IsFinite(x) == x.k = "fin"

IsNaN(x) == x.k = "nan"

Sign(x) == IF x.n > 0 THEN 1 ELSE IF x.n < 0 THEN -1 ELSE 0

\* x + y
NumAddF[x \in Nums, y \in Nums] ==
  CASE IsNaN(x) \/ IsNaN(y) -> NaN
    [] x.k = "inf" /\ y.k = "inf" -> IF x.n = y.n THEN x ELSE NaN
    [] x.k = "inf" -> x
    [] y.k = "inf" -> y
    [] OTHER ->
         LET g == GCD(x.d, y.d)
             l == (x.d \div g) * y.d
         IN Fin(x.n * (l \div x.d) + y.n * (l \div y.d), l)

NumAdd(x, y) == NumAddF[x, y]

\* x * y
NumMulF[x \in Nums, y \in Nums] ==
  CASE IsNaN(x) \/ IsNaN(y) -> NaN
    [] x.k = "inf" \/ y.k = "inf" ->
         IF Sign(x) * Sign(y) = 0 THEN NaN
         ELSE IF Sign(x) * Sign(y) > 0 THEN PosInfinity ELSE NegInfinity
    [] OTHER ->
         LET g1 == GCD(Abs(x.n), y.d)
             g2 == GCD(Abs(y.n), x.d)
         IN Fin((x.n \div g1) * (y.n \div g2), (x.d \div g2) * (y.d \div g1))

NumMul(x, y) == NumMulF[x, y]

\* x / y (the zero of the model is +0)
NumDivF[x \in Nums, y \in Nums] ==
  CASE IsNaN(x) \/ IsNaN(y) -> NaN
    [] x.k = "inf" /\ y.k = "inf" -> NaN
    [] x.k = "inf" -> IF Sign(y) < 0 THEN [x EXCEPT !.n = -x.n] ELSE x
    [] y.k = "inf" -> Zero
    [] y.n = 0 ->
         IF x.n = 0 THEN NaN ELSE IF x.n > 0 THEN PosInfinity ELSE NegInfinity
    [] OTHER ->
         NumMul(x, Fin(y.d * Sign(y), Abs(y.n)))

NumDiv(x, y) == NumDivF[x, y]

\* x < y, false when either side is NaN
NumLessF[x \in Nums, y \in Nums] ==
  CASE IsNaN(x) \/ IsNaN(y) -> FALSE
    [] x.k = "inf" /\ y.k = "inf" -> x.n < y.n
    [] x.k = "inf" -> x.n < 0
    [] y.k = "inf" -> y.n > 0
    [] OTHER ->
         LET g == GCD(x.d, y.d)
         IN x.n * (y.d \div g) < y.n * (x.d \div g)

NumLess(x, y) == NumLessF[x, y]

\* x > y
NumGreater(x, y) == NumLess(y, x)

\* x == y of JavaScript: NaN equals nothing
NumEq(x, y) == ~IsNaN(x) /\ ~IsNaN(y) /\ x = y

\* x || 0 on a number that may be undefined
OrZeroF[x \in Nums] == IF x.k = "undefined" \/ IsNaN(x) \/ x = Zero THEN Zero ELSE x

OrZero(x) == OrZeroF[x]

(***************************************************************************)
(* Strings the engines convert.  Amounts are decimal strings; the amounts  *)
(* of the model are 0, 2^-6, 1 and 2^6 and a string that is no number.     *)
(***************************************************************************)
AmountStrings == {"0", "0.015625", "1", "64", "abc"}

\* parseFloat(s)
parseFloat(s) ==
  CASE s = "0" -> Zero
    [] s = "0.015625" -> Fin(1, 64)
    [] s = "1" -> One
    [] s = "64" -> Int2Num(64)
    [] s = "400" -> Int2Num(400)
    [] s = "600" -> Int2Num(600)
    [] s = "-400" -> Int2Num(-400)
    [] OTHER -> NaN

\* a string as a condition: only "" is falsy
Truthy(s) == s # ""

\* String.prototype.toLowerCase on the token identifiers of the model
toLowerCase(s) ==
  CASE s = "0xA" -> "0xa"
    [] s = "0xB" -> "0xb"
    [] OTHER -> s

DigitStrings == <<"0", "1", "2", "3", "4", "5", "6", "7", "8", "9">>

\* Number.prototype.toString on the identifiers of the model
NumberToString(x) ==
  CASE IsNaN(x) -> "NaN"
    [] IsFinite(x) /\ x.d = 1 /\ x.n >= 0 /\ x.n <= 9 -> DigitStrings[x.n + 1]
    [] OTHER -> "?"

Log2IntF[p \in Nat] == IF p <= 1 THEN 0 ELSE 1 + Log2IntF[p \div 2]

Log2Int(p) == Log2IntF[p]

\* Math.log(x) for x > 0, in units of ln 2 (exact on the powers of two, which
\* are the positive amounts of the model)
MathLogF[x \in Nums] ==
  CASE IsNaN(x) -> NaN
    [] x.k = "inf" -> IF x.n > 0 THEN PosInfinity ELSE NaN
    [] x.n < 0 -> NaN
    [] x.n = 0 -> NegInfinity
    [] OTHER -> Int2Num(Log2Int(x.n) - Log2Int(x.d))

MathLog(x) == MathLogF[x]

\* Math.exp(x) for x in units of ln 2: exp(-Infinity) = 0, exp(NaN) = NaN.
\* Exact when x is an integer; ExponentsAreIntegers states that the model
\* never asks for another exponent.
MathExpF[x \in Nums] ==
  CASE IsNaN(x) -> NaN
    [] x.k = "inf" -> IF x.n > 0 THEN PosInfinity ELSE Zero
    [] OTHER ->
         LET m == x.n \div x.d
         IN IF m >= 0 THEN Int2Num(2 ^ m) ELSE Fin(1, 2 ^ (-m))

MathExp(x) == MathExpF[x]

(***************************************************************************)
(* Map<string, number>: the entries in insertion order.                    *)
(***************************************************************************)
EmptyMap == <<>>

MapHas(m, key) == \E i \in 1..Len(m) : m[i].key = key

MapGet(m, key) == m[CHOOSE i \in 1..Len(m) : m[i].key = key].value

\* Map.prototype.set: an existing key keeps its position
MapSet(m, key, value) ==
  IF MapHas(m, key)
  THEN [i \in 1..Len(m) |->
          IF m[i].key = key THEN [key |-> key, value |-> value] ELSE m[i]]
  ELSE Append(m, [key |-> key, value |-> value])

\* Array.from(m.values()).reduce((sum, weight) => sum + weight, 0)
MapValuesSum(m) ==
  LET acc[i \in 0..Len(m)] ==
        IF i = 0 THEN Zero ELSE NumAdd(acc[i - 1], m[i].value)
  IN acc[Len(m)]

\* what a call produced: a map, or an exception
Returned(m) == [threw |-> FALSE, map |-> m]

Threw == [threw |-> TRUE, map |-> EmptyMap]

(***************************************************************************)
(* Weighted-Mean Engine (simulation-utils.ts).                             *)
(*   strategy     : [strategy, tokens, validatorBalanceWeight]             *)
(*                  tokens is a function from token keys to amount strings *)
(*   coefficients : sequence of [token, coefficient]                       *)
(*   a list or an options object that may be undefined is a record with a  *)
(*   "defined" field                                                       *)
(***************************************************************************)

\* the amount held under strategy.tokens[token] counts: the entry exists, its
\* amount is a non-empty string and parses to a number > 0
HasPositiveAmount(strategy, token) ==
  /\ token \in DOMAIN strategy.tokens
  /\ Truthy(strategy.tokens[token])
  /\ NumGreater(parseFloat(strategy.tokens[token]), Zero)

calculateCoefficientsSum(coefficients) ==
  LET acc[i \in 0..Len(coefficients)] ==
        IF i = 0 THEN Zero ELSE NumAdd(acc[i - 1], coefficients[i].coefficient)
  IN acc[Len(coefficients)]

calculateWeightTotals(strategy, coefficients, validatorCoefficient) ==
  LET tokenTotal[i \in 0..Len(coefficients)] ==
        IF i = 0 THEN Zero
        ELSE IF HasPositiveAmount(strategy, coefficients[i].token)
             THEN NumAdd(tokenTotal[i - 1],
                         NumMul(parseFloat(strategy.tokens[coefficients[i].token]),
                                coefficients[i].coefficient))
             ELSE tokenTotal[i - 1]
      delegatedTotal ==
        NumMul(OrZero(strategy.validatorBalanceWeight), validatorCoefficient)
  IN NumAdd(tokenTotal[Len(coefficients)], delegatedTotal)

calculateWeightedRatioSum(strategy, coefficients, validatorCoefficient) ==
  LET tokenRatioSum[i \in 0..Len(coefficients)] ==
        IF i = 0 THEN Zero
        ELSE IF HasPositiveAmount(strategy, coefficients[i].token)
             THEN NumAdd(tokenRatioSum[i - 1],
                         NumDiv(coefficients[i].coefficient,
                                parseFloat(strategy.tokens[coefficients[i].token])))
             ELSE tokenRatioSum[i - 1]
      delegatedRatio ==
        IF NumGreater(OrZero(strategy.validatorBalanceWeight), Zero)
        THEN NumDiv(validatorCoefficient, strategy.validatorBalanceWeight)
        ELSE Zero
  IN NumAdd(tokenRatioSum[Len(coefficients)], delegatedRatio)

\* a loop over the coefficients that returns -Infinity at the first token
\* without a positive amount, whatever its coefficient
calculateWeightedLogSum_AnyCoefficient(strategy, coefficients, validatorCoefficient) ==
  LET logSum[i \in 0..Len(coefficients)] ==
        IF i = 0 THEN Zero
        ELSE NumAdd(logSum[i - 1],
                    NumMul(coefficients[i].coefficient,
                           MathLog(parseFloat(strategy.tokens[coefficients[i].token]))))
      delegatedBalance == OrZero(strategy.validatorBalanceWeight)
  IN IF \E i \in 1..Len(coefficients) : ~HasPositiveAmount(strategy, coefficients[i].token)
     THEN NegInfinity
     ELSE IF NumGreater(validatorCoefficient, Zero)
          THEN IF NumGreater(delegatedBalance, Zero)
               THEN NumAdd(logSum[Len(coefficients)],
                           NumMul(validatorCoefficient, MathLog(delegatedBalance)))
               ELSE NegInfinity
          ELSE logSum[Len(coefficients)]

\* the loop over the coefficients returns -Infinity at the first coefficient
\* > 0 whose token has no positive amount
calculateWeightedLogSum(strategy, coefficients, validatorCoefficient) ==
  LET Missing(i) == /\ ~HasPositiveAmount(strategy, coefficients[i].token)
                    /\ NumGreater(coefficients[i].coefficient, Zero)
      logSum[i \in 0..Len(coefficients)] ==
        IF i = 0 THEN Zero
        ELSE IF HasPositiveAmount(strategy, coefficients[i].token)
             THEN NumAdd(logSum[i - 1],
                         NumMul(coefficients[i].coefficient,
                                MathLog(parseFloat(strategy.tokens[coefficients[i].token]))))
             ELSE logSum[i - 1]
      delegatedBalance == OrZero(strategy.validatorBalanceWeight)
  IN IF \E i \in 1..Len(coefficients) : Missing(i)
     THEN NegInfinity
     ELSE IF NumGreater(validatorCoefficient, Zero)
          THEN IF NumGreater(delegatedBalance, Zero)
               THEN NumAdd(logSum[Len(coefficients)],
                           NumMul(validatorCoefficient, MathLog(delegatedBalance)))
               ELSE NegInfinity
          ELSE logSum[Len(coefficients)]

\* { coefficients, validatorCoefficient = 0 }: the default of the destructuring
ValidatorCoefficientOf(options) ==
  IF options.validatorCoefficient.k = "undefined" THEN Zero
  ELSE options.validatorCoefficient

\* a second loop that leaves the weights as they are
NormalizeWeights_Skipped(unnormalizedWeights) == unnormalizedWeights

\* the second loop of the three functions: every weight divided by the sum of
\* the map's values
NormalizeWeights(unnormalizedWeights) ==
  LET weightSum == MapValuesSum(unnormalizedWeights)
  IN [i \in 1..Len(unnormalizedWeights) |->
        [key |-> unnormalizedWeights[i].key,
         value |-> NumDiv(unnormalizedWeights[i].value, weightSum)]]

ArithmeticUnnormalizedWeights(items, coefficients, validatorCoefficient) ==
  LET totalCoefficient == NumAdd(calculateCoefficientsSum(coefficients), validatorCoefficient)
      weightMap[i \in 0..Len(items)] ==
        IF i = 0 THEN EmptyMap
        ELSE MapSet(weightMap[i - 1], NumberToString(items[i].strategy),
                    NumDiv(calculateWeightTotals(items[i], coefficients, validatorCoefficient),
                           totalCoefficient))
  IN weightMap[Len(items)]

HarmonicUnnormalizedWeights(items, coefficients, validatorCoefficient) ==
  LET coeffSum == NumAdd(calculateCoefficientsSum(coefficients), validatorCoefficient)
      FinalWeight(strategy) ==
        LET denom == calculateWeightedRatioSum(strategy, coefficients, validatorCoefficient)
        IN IF ~NumEq(denom, Zero) THEN NumDiv(coeffSum, denom) ELSE Zero
      weightMap[i \in 0..Len(items)] ==
        IF i = 0 THEN EmptyMap
        ELSE MapSet(weightMap[i - 1], NumberToString(items[i].strategy),
                    FinalWeight(items[i]))
  IN weightMap[Len(items)]

\* a finalWeight whose exponent is not divided by the total coefficient
GeometricFinalWeight_NoDivision(logSum, totalCoefficient) ==
  IF ~NumEq(logSum, Zero) THEN MathExp(logSum) ELSE Zero

\* finalWeight = logSum != 0 ? Math.exp(logSum / totalCoefficient) : 0
GeometricFinalWeight(logSum, totalCoefficient) ==
  IF ~NumEq(logSum, Zero) THEN MathExp(NumDiv(logSum, totalCoefficient)) ELSE Zero

GeometricUnnormalizedWeights(items, coefficients, validatorCoefficient) ==
  LET totalCoefficient == NumAdd(calculateCoefficientsSum(coefficients), validatorCoefficient)
      weightMap[i \in 0..Len(items)] ==
        IF i = 0 THEN EmptyMap
        ELSE MapSet(weightMap[i - 1], NumberToString(items[i].strategy),
                    GeometricFinalWeight(
                      calculateWeightedLogSum(items[i], coefficients, validatorCoefficient),
                      totalCoefficient))
  IN weightMap[Len(items)]

\* A TypeError is raised by the destructuring of undefined options, by
\* undefined.reduce on an undefined strategy list, and by
\* calculateCoefficientsSum(undefined), which the arithmetic and the geometric
\* function call once per strategy and the harmonic function calls first.
calcArithmeticStrategyWeights(strategyTokenWeights, options) ==
  IF \/ ~options.defined
     \/ ~strategyTokenWeights.defined
     \/ (~options.hasCoefficients /\ Len(strategyTokenWeights.items) > 0)
  THEN Threw
  ELSE Returned(NormalizeWeights(
         ArithmeticUnnormalizedWeights(strategyTokenWeights.items, options.coefficients,
                                       ValidatorCoefficientOf(options))))

calcHarmonicStrategyWeights(strategyTokenWeights, options) ==
  IF \/ ~options.defined
     \/ ~options.hasCoefficients
     \/ ~strategyTokenWeights.defined
  THEN Threw
  ELSE Returned(NormalizeWeights(
         HarmonicUnnormalizedWeights(strategyTokenWeights.items, options.coefficients,
                                     ValidatorCoefficientOf(options))))

calcGeometricStrategyWeights(strategyTokenWeights, options) ==
  IF \/ ~options.defined
     \/ ~strategyTokenWeights.defined
     \/ (~options.hasCoefficients /\ Len(strategyTokenWeights.items) > 0)
  THEN Threw
  ELSE Returned(NormalizeWeights(
         GeometricUnnormalizedWeights(strategyTokenWeights.items, options.coefficients,
                                      ValidatorCoefficientOf(options))))

\* !strategyTokenWeights?.length
IsEmptyOrAbsent(strategyTokenWeights) ==
  ~strategyTokenWeights.defined \/ Len(strategyTokenWeights.items) = 0

\* calculateSimulationWeights without its first statement, the test of
\* !strategyTokenWeights?.length
calculateSimulationWeights_NoGuard(strategyTokenWeights, options, calculationType) ==
  CASE calculationType = "geometric" ->
         calcGeometricStrategyWeights(strategyTokenWeights, options)
    [] calculationType = "harmonic" ->
         calcHarmonicStrategyWeights(strategyTokenWeights, options)
    [] OTHER -> calcArithmeticStrategyWeights(strategyTokenWeights, options)

calculateSimulationWeights(strategyTokenWeights, options, calculationType) ==
  IF IsEmptyOrAbsent(strategyTokenWeights) THEN Returned(EmptyMap)
  ELSE CASE calculationType = "geometric" ->
              calcGeometricStrategyWeights(strategyTokenWeights, options)
         [] calculationType = "harmonic" ->
              calcHarmonicStrategyWeights(strategyTokenWeights, options)
         [] OTHER -> calcArithmeticStrategyWeights(strategyTokenWeights, options)

\* sdk.ts: the same switch over sdk.utils.calc*StrategyWeights, the functions
\* of which simulation-utils.ts holds the copies, inside try/catch
calculateStrategyWeights(strategyTokenWeights, options, calculationType) ==
  IF IsEmptyOrAbsent(strategyTokenWeights) THEN Returned(EmptyMap)
  ELSE LET result ==
             CASE calculationType = "geometric" ->
                    calcGeometricStrategyWeights(strategyTokenWeights, options)
               [] calculationType = "harmonic" ->
                    calcHarmonicStrategyWeights(strategyTokenWeights, options)
               [] OTHER -> calcArithmeticStrategyWeights(strategyTokenWeights, options)
       IN IF result.threw THEN Returned(EmptyMap) ELSE result

(***************************************************************************)
(* State.  The engines keep none between calls: the variables hold the     *)
(* arguments of a call, what the call produced, and, for the asynchronous  *)
(* engine, the position of the call.                                       *)
(***************************************************************************)
VARIABLES
  strategyTokenWeights,  \* argument: the strategy list (tokens-map view)
  options,               \* argument: WeightCalculationOptions
  calculationType,       \* argument: "arithmetic" | "geometric" | "harmonic"
  wmCall,                \* which function produced wmResult ("none" before a call)
  wmResult,              \* what the last weighted-mean call produced
  wmBefore,              \* what the call before an amount was raised produced
  wmRaised,              \* the index of the strategy whose amount was raised, or 0
  wmToken,               \* the token key the caller changed before the last call, or ""
  simulationStrategies,  \* argument: the UIStrategy list (tokenWeights-list view)
  tokenCoefficients,     \* argument: the configured token coefficients
  pwPc,                  \* calculateSimulationParticipantWeights: "idle", "awaiting", "done"
  pwCalls,               \* how many calls have completed
  pwApiData,             \* what getParticipantWeights resolved to in the last call
  pwResult,              \* what the last completed call produced
  pwFirst,               \* what the first completed call produced
  configBAppId,          \* App state: config.bAppId
  simulationBAppId,      \* App state: simulationConfig.bAppId
  seenConfigBAppId,      \* config.bAppId of the last render (the effects' dependency)
  seenSimulationBAppId,  \* simulationConfig.bAppId of the last render
  bAppChanges,           \* how many times the user has changed a bAppId
  fetchSeenBAppId,       \* config.bAppId of the last run of the fetch effect, "" before it
  fetches,               \* the calls of fetchStrategies in flight: [n, bAppId, pc]
  fetchStarted,          \* how many calls of fetchStrategies have started
  fetchOk,               \* the calls (by n) that reached setStrategies
  strategiesOf,          \* App state: the bAppId whose strategies `strategies` holds, "" for []
  relevantTokensOf,      \* App state: the bAppId whose tokens `relevantTokens` holds
  isLoadingCalculatorData, \* App state
  enginePassed,          \* what the weights effect passed to the weight engine, if it called it
  simulationDelegatedBalances,       \* App state; hasList FALSE stands for null
  simulationEditedDelegatedBalances, \* App state: a Map of strategyId to balance
  simulationDataEdited,              \* App state
  delegatedBefore,       \* simulationDelegatedBalances before the last change
  delegatedChange,       \* the arguments of the last change: [strategyId, newBalance]
  delegatedChanges,      \* how many changes the handler has made
  listStrategies,        \* StrategyList: the strategies prop
  listRelevantTokens,    \* StrategyList: the relevantTokens prop
  editingValues,         \* StrategyList state: input key to the text being typed
  listPhase,             \* "rendered", "typing" (an input has focus) or "handled"
  listBefore,            \* the strategies before the last event
  listEvent,             \* the last event: its kind, row and text
  sdkSimulationData,     \* createMockableSDK: the simulation data of the closure
  sdkQuery,              \* the last query the intercepted client was asked
  sdkResponse,           \* what the intercepted request settled with
  sdkOriginalCalled,     \* whether that request called the original request method
  appSimulationStrategies,   \* App state simulationStrategies
  appTokenCoefficients,      \* App state simulationConfig.tokenCoefficients
  coefficientsVersion,       \* which array object tokenCoefficients is
  seenCoefficientsVersion,   \* the array object the last render's effect deps held
  coefficientUpdates,        \* calls of setSimulationStrategies by the effect since the last coefficient change
  coefficientEvent,          \* the last step: "none", "change", "effect" or "edit"
  strategiesBeforeEffect     \* simulationStrategies as the last effect run found them

wmVars ==
  <<strategyTokenWeights, options, calculationType, wmCall, wmResult, wmBefore, wmRaised,
    wmToken>>

pwVars ==
  <<simulationStrategies, tokenCoefficients, pwPc, pwCalls, pwApiData, pwResult, pwFirst>>

syncVars ==
  <<configBAppId, simulationBAppId, seenConfigBAppId, seenSimulationBAppId, bAppChanges>>

\* the state of the application component (App.tsx) and of its children
fetchVars ==
  <<fetchSeenBAppId, fetches, fetchStarted, fetchOk, strategiesOf, relevantTokensOf,
    isLoadingCalculatorData>>

effectVars == <<enginePassed>>

delegatedVars ==
  <<simulationDelegatedBalances, simulationEditedDelegatedBalances, simulationDataEdited,
    delegatedBefore, delegatedChange, delegatedChanges>>

listVars ==
  <<listStrategies, listRelevantTokens, editingValues, listPhase, listBefore, listEvent>>

sdkVars == <<sdkSimulationData, sdkQuery, sdkResponse, sdkOriginalCalled>>

coefficientVars ==
  <<appSimulationStrategies, appTokenCoefficients, coefficientsVersion,
    seenCoefficientsVersion, coefficientUpdates, coefficientEvent, strategiesBeforeEffect>>

uiVars ==
  <<syncVars, fetchVars, effectVars, delegatedVars, listVars, sdkVars, coefficientVars>>

vars == <<wmVars, pwVars, uiVars>>

\* the default bAppId of defaultConfig, shortened
DefaultBAppId == "0x24d1"

\* both configs start as defaultConfig and the first render has run
SyncIdle ==
  /\ configBAppId = DefaultBAppId
  /\ simulationBAppId = DefaultBAppId
  /\ seenConfigBAppId = DefaultBAppId
  /\ seenSimulationBAppId = DefaultBAppId
  /\ bAppChanges = 0

\* the application component in its state after the first render
\* the state variables as useState initialises them, before the fetch effect
FetchIdle ==
  /\ fetchSeenBAppId = ""
  /\ fetches = {}
  /\ fetchStarted = 0
  /\ fetchOk = {}
  /\ strategiesOf = ""
  /\ relevantTokensOf = ""
  /\ isLoadingCalculatorData = FALSE

\* the weight engine has not been invoked
NotInvoked == [invoked |-> FALSE, items |-> <<>>]

\* useState(null)
NoDelegatedBalances ==
  [hasList |-> FALSE, bAppTotalDelegatedBalance |-> "", bAppTotalDelegatedBalances |-> <<>>]

DelegatedIdle ==
  /\ simulationDelegatedBalances = NoDelegatedBalances
  /\ simulationEditedDelegatedBalances = EmptyMap
  /\ simulationDataEdited = FALSE
  /\ delegatedBefore = NoDelegatedBalances
  /\ delegatedChange = [strategyId |-> "", newBalance |-> ""]
  /\ delegatedChanges = 0

NoListEvent == [kind |-> "none", sIdx |-> 0, tokenIndex |-> 0, text |-> ""]

ListIdle ==
  /\ listStrategies = <<>>
  /\ listRelevantTokens = {}
  /\ editingValues = EmptyMap
  /\ listPhase = "rendered"
  /\ listBefore = <<>>
  /\ listEvent = NoListEvent

NoQuery == [isString |-> TRUE, serialisable |-> TRUE, contains |-> {"none"}]

NoResponse == [kind |-> "none"]

SdkIdle ==
  /\ sdkSimulationData = [strategies |-> <<>>, bAppId |-> ""]
  /\ sdkQuery = NoQuery
  /\ sdkResponse = NoResponse
  /\ sdkOriginalCalled = FALSE

CoefficientsIdle ==
  /\ appSimulationStrategies = <<>>
  /\ appTokenCoefficients = <<>>
  /\ coefficientsVersion = 0
  /\ seenCoefficientsVersion = 0
  /\ coefficientUpdates = 0
  /\ coefficientEvent = "none"
  /\ strategiesBeforeEffect = <<>>

UiIdle ==
  /\ SyncIdle
  /\ FetchIdle
  /\ enginePassed = NotInvoked
  /\ DelegatedIdle
  /\ ListIdle
  /\ SdkIdle
  /\ CoefficientsIdle

(***************************************************************************)
(* The inputs of the weighted-mean calls.                                  *)
(***************************************************************************)
NoTokens == [t \in {} |-> ""]

Holding(token, amount) == [t \in {token} |-> amount]

Holding2(token1, amount1, token2, amount2) ==
  [t \in {token1, token2} |-> IF t = token1 THEN amount1 ELSE amount2]

\* what one strategy holds: its tokens map and its validatorBalanceWeight
SampleHoldings ==
  { [tokens |-> NoTokens, validatorBalanceWeight |-> undefined],
    [tokens |-> Holding("0xa", "0"), validatorBalanceWeight |-> Zero],
    [tokens |-> Holding("0xa", "0.015625"), validatorBalanceWeight |-> One],
    [tokens |-> Holding("0xa", "1"), validatorBalanceWeight |-> One],
    [tokens |-> Holding2("0xa", "64", "0xb", "0.015625"),
     validatorBalanceWeight |-> Int2Num(64)],
    [tokens |-> Holding2("0xA", "64", "0xb", "abc"),
     validatorBalanceWeight |-> undefined] }

StrategyIds == {1, 2}

SampleStrategies ==
  { [strategy |-> Int2Num(id), tokens |-> h.tokens,
     validatorBalanceWeight |-> h.validatorBalanceWeight] :
      id \in StrategyIds, h \in SampleHoldings }

SeqsUpTo(S, n) == UNION { [1..m -> S] : m \in 0..n }

UndefinedList == [defined |-> FALSE, items |-> <<>>]

StrategyLists ==
  { [defined |-> TRUE, items |-> l] : l \in SeqsUpTo(SampleStrategies, MaxStrategies) }
    \cup {UndefinedList}

Coeff(token, c) == [token |-> token, coefficient |-> Int2Num(c)]

SampleCoefficients ==
  { <<>>,
    <<Coeff("0xa", 1)>>,
    <<Coeff("0xa", 0)>>,
    <<Coeff("0xa", 2)>>,
    <<Coeff("0xa", 1), Coeff("0xb", 1)>>,
    <<Coeff("0xa", 1), Coeff("0xb", 0)>> }

UndefinedOptions ==
  [defined |-> FALSE, hasCoefficients |-> FALSE, coefficients |-> <<>>,
   validatorCoefficient |-> undefined]

OptionsSet ==
  { [defined |-> TRUE, hasCoefficients |-> TRUE, coefficients |-> c,
     validatorCoefficient |-> v] :
      c \in SampleCoefficients, v \in {Zero, One} }
    \cup { [defined |-> TRUE, hasCoefficients |-> FALSE, coefficients |-> <<>>,
            validatorCoefficient |-> undefined],
           UndefinedOptions }

CalculationTypes == {"arithmetic", "geometric", "harmonic"}

NoResult == Returned(EmptyMap)

InitWeightedMean ==
  /\ UiIdle
  /\ simulationStrategies = <<>>
  /\ tokenCoefficients = <<>>
  /\ pwPc = "idle"
  /\ pwCalls = 0
  /\ pwApiData = <<>>
  /\ pwResult = [threw |-> FALSE, list |-> <<>>]
  /\ pwFirst = [threw |-> FALSE, list |-> <<>>]
  /\ strategyTokenWeights \in StrategyLists
  /\ options \in OptionsSet
  /\ calculationType \in CalculationTypes
  /\ wmCall = "none"
  /\ wmResult = NoResult
  /\ wmBefore = NoResult
  /\ wmRaised = 0
  /\ wmToken = ""

\* the mean function of the calculation type, called directly
CalcStrategyWeights(list, opts, type) ==
  CASE type = "geometric" -> calcGeometricStrategyWeights(list, opts)
    [] type = "harmonic" -> calcHarmonicStrategyWeights(list, opts)
    [] OTHER -> calcArithmeticStrategyWeights(list, opts)

CallMean ==
  /\ wmCall = "none"
  /\ wmCall' = "mean"
  /\ wmResult' = CalcStrategyWeights(strategyTokenWeights, options, calculationType)
  /\ UNCHANGED <<strategyTokenWeights, options, calculationType, wmBefore, wmRaised, wmToken,
                 pwVars, uiVars>>

CallSimulationWeights ==
  /\ wmCall = "none"
  /\ wmCall' = "simulation"
  /\ wmResult' = calculateSimulationWeights(strategyTokenWeights, options, calculationType)
  /\ UNCHANGED <<strategyTokenWeights, options, calculationType, wmBefore, wmRaised, wmToken,
                 pwVars, uiVars>>

CallStrategyWeights ==
  /\ wmCall = "none"
  /\ wmCall' = "sdk"
  /\ wmResult' = calculateStrategyWeights(strategyTokenWeights, options, calculationType)
  /\ UNCHANGED <<strategyTokenWeights, options, calculationType, wmBefore, wmRaised, wmToken,
                 pwVars, uiVars>>

\* the caller raises one strategy's amount of one token and calls the mean
\* function again with everything else as it was
RaiseAmountAndCall ==
  /\ wmCall = "mean"
  /\ ~wmResult.threw
  /\ \E i \in 1..Len(strategyTokenWeights.items) :
       \E token \in DOMAIN strategyTokenWeights.items[i].tokens :
         \E amount \in AmountStrings :
           /\ NumLess(parseFloat(strategyTokenWeights.items[i].tokens[token]),
                      parseFloat(amount))
           /\ strategyTokenWeights' =
                [strategyTokenWeights EXCEPT !.items[i].tokens[token] = amount]
           /\ wmRaised' = i
           /\ wmToken' = token
  /\ wmBefore' = wmResult
  /\ wmResult' = CalcStrategyWeights(strategyTokenWeights', options, calculationType)
  /\ wmCall' = "raised"
  /\ UNCHANGED <<options, calculationType, pwVars, uiVars>>

NextWeightedMean ==
  \/ CallMean
  \/ CallSimulationWeights
  \/ CallStrategyWeights
  \/ RaiseAmountAndCall

SpecWeightedMean == InitWeightedMean /\ [][NextWeightedMean]_vars

(***************************************************************************)
(* Calls of a mean function before and after the caller changes one entry  *)
(* of one strategy's tokens map.                                           *)
(***************************************************************************)
\* the tokens the options name with a coefficient
ConfiguredTokens(opts) == { opts.coefficients[j].token : j \in 1..Len(opts.coefficients) }

\* strategy.tokens[token] = {amount}
SetAmount(tokens, token, amount) ==
  [t \in DOMAIN tokens \cup {token} |-> IF t = token THEN amount ELSE tokens[t]]

\* delete strategy.tokens[token]
DeleteToken(tokens, token) == [t \in DOMAIN tokens \ {token} |-> tokens[t]]

\* the same token identifier in the other letter case
OtherCase(token) ==
  CASE token = "0xa" -> "0xA"
    [] token = "0xA" -> "0xa"
    [] token = "0xb" -> "0xB"
    [] token = "0xB" -> "0xb"
    [] OTHER -> token

\* the caller sets or deletes one strategy's amount of a configured token and
\* calls the mean function again with everything else as it was
ChangeAmountAndCall ==
  /\ wmCall = "mean"
  /\ ~wmResult.threw
  /\ \E i \in 1..Len(strategyTokenWeights.items) :
       \E token \in ConfiguredTokens(options) :
         \E tokens \in { SetAmount(strategyTokenWeights.items[i].tokens, token, amount) :
                           amount \in AmountStrings }
                         \cup { DeleteToken(strategyTokenWeights.items[i].tokens, token) } :
           /\ tokens # strategyTokenWeights.items[i].tokens
           /\ strategyTokenWeights' = [strategyTokenWeights EXCEPT !.items[i].tokens = tokens]
           /\ wmRaised' = i
           /\ wmToken' = token
  /\ wmBefore' = wmResult
  /\ wmResult' = CalcStrategyWeights(strategyTokenWeights', options, calculationType)
  /\ wmCall' = "changed"
  /\ UNCHANGED <<options, calculationType, pwVars, uiVars>>

\* the caller changes the letter case of one token key of one strategy and
\* calls the mean function again with everything else as it was
ChangeCaseAndCall ==
  /\ wmCall = "mean"
  /\ ~wmResult.threw
  /\ \E i \in 1..Len(strategyTokenWeights.items) :
       \E token \in DOMAIN strategyTokenWeights.items[i].tokens :
         /\ OtherCase(token) \notin DOMAIN strategyTokenWeights.items[i].tokens
         /\ strategyTokenWeights' =
              [strategyTokenWeights EXCEPT !.items[i].tokens =
                 SetAmount(DeleteToken(@, token), OtherCase(token), @[token])]
         /\ wmRaised' = i
         /\ wmToken' = token
  /\ wmBefore' = wmResult
  /\ wmResult' = CalcStrategyWeights(strategyTokenWeights', options, calculationType)
  /\ wmCall' = "recased"
  /\ UNCHANGED <<options, calculationType, pwVars, uiVars>>

NextTokenChange ==
  \/ CallMean
  \/ ChangeAmountAndCall
  \/ ChangeCaseAndCall

SpecTokenChange == InitWeightedMean /\ [][NextTokenChange]_vars

(***************************************************************************)
(* Properties of the weighted-mean calls.                                  *)
(***************************************************************************)
Items == strategyTokenWeights.items

\* the unnormalized weights the mean function of the calculation type builds
UnnormalizedWeights ==
  CASE calculationType = "geometric" ->
         GeometricUnnormalizedWeights(Items, options.coefficients,
                                      ValidatorCoefficientOf(options))
    [] calculationType = "harmonic" ->
         HarmonicUnnormalizedWeights(Items, options.coefficients,
                                     ValidatorCoefficientOf(options))
    [] OTHER ->
         ArithmeticUnnormalizedWeights(Items, options.coefficients,
                                       ValidatorCoefficientOf(options))

MeanReturned == wmCall = "mean" /\ ~wmResult.threw

\* The amounts of the model keep every exponent handed to Math.exp an integer
\* number of ln 2, where MathExp is exact.
ExponentsAreIntegers ==
  (options.defined /\ options.hasCoefficients /\ strategyTokenWeights.defined) =>
    \A i \in 1..Len(Items) :
      LET logSum == calculateWeightedLogSum(Items[i], options.coefficients,
                                            ValidatorCoefficientOf(options))
          x == NumDiv(logSum, NumAdd(calculateCoefficientsSum(options.coefficients),
                                     ValidatorCoefficientOf(options)))
      IN IsFinite(x) => x.d = 1

\* C1: for each of the three mean functions and every non-empty strategy list
\* whose unnormalized weights do not all equal 0, the values of the returned
\* map sum to 1.
C1_WeightsSumToOne ==
  (/\ MeanReturned
   /\ Len(Items) > 0
   /\ \E i \in 1..Len(UnnormalizedWeights) : UnnormalizedWeights[i].value # Zero)
    => MapValuesSum(wmResult.map) = One

\* C2: every value of the map a mean function returns is a finite number,
\* never NaN or Infinity, and is 0 when the total coefficient or the sum of
\* the unnormalized weights is 0.
C2_WeightsAreFinite ==
  MeanReturned =>
    \A i \in 1..Len(wmResult.map) :
      /\ IsFinite(wmResult.map[i].value)
      /\ (MapValuesSum(UnnormalizedWeights) = Zero => wmResult.map[i].value = Zero)

\* C3: calculateSimulationWeights and calculateStrategyWeights return an empty
\* map, without raising, when the strategy list is empty or absent, for every
\* calculation type and every options value.
C3_EmptyListGivesEmptyMap ==
  (wmCall \in {"simulation", "sdk"} /\ IsEmptyOrAbsent(strategyTokenWeights))
    => wmResult = Returned(EmptyMap)

C3_Witness ==
  /\ wmCall = "simulation"
  /\ ~strategyTokenWeights.defined
  /\ ~options.defined
  /\ calculationType = "harmonic"
  /\ wmResult = Returned(EmptyMap)

\* C4: with options that carry no coefficients list and a non-empty strategy
\* list, calculateSimulationWeights and calculateStrategyWeights return an
\* empty map and raise no error.
C4_NoCoefficientsGivesEmptyMap ==
  (/\ wmCall \in {"simulation", "sdk"}
   /\ options.defined
   /\ ~options.hasCoefficients
   /\ ~IsEmptyOrAbsent(strategyTokenWeights))
    => wmResult = Returned(EmptyMap)

\* C10: under the arithmetic and the geometric mean, raising one strategy's
\* amount of one token, everything else fixed, never lowers the normalized
\* weight returned for that strategy.
C10_RaisingAmountNeverLowersWeight ==
  (/\ wmCall = "raised"
   /\ calculationType \in {"arithmetic", "geometric"}
   /\ ~wmResult.threw)
    => LET key == NumberToString(Items[wmRaised].strategy)
       IN ~NumLess(MapGet(wmResult.map, key), MapGet(wmBefore.map, key))

\* the options give the token a coefficient, and it is 0
HasZeroCoefficient(opts, token) ==
  /\ token \in ConfiguredTokens(opts)
  /\ \A j \in 1..Len(opts.coefficients) :
       opts.coefficients[j].token = token => opts.coefficients[j].coefficient = Zero

DistinctIds ==
  \A i, j \in 1..Len(Items) : Items[i].strategy = Items[j].strategy => i = j

\* the weight the returned map holds for strategy i
WeightOf(i) == MapGet(wmResult.map, NumberToString(Items[i].strategy))

SumF[xs \in Seq(Nums), i \in Nat] == IF i = 0 THEN Zero ELSE NumAdd(SumF[xs, i - 1], xs[i])

\* the total coefficient mass C
TotalCoefficient ==
  NumAdd(calculateCoefficientsSum(options.coefficients), ValidatorCoefficientOf(options))

LogSumOf(i) ==
  calculateWeightedLogSum(Items[i], options.coefficients, ValidatorCoefficientOf(options))

\* the amount of the token is zero or absent in the strategy
ZeroOrAbsent(strategy, token) ==
  \/ token \notin DOMAIN strategy.tokens
  \/ strategy.tokens[token] = ""
  \/ parseFloat(strategy.tokens[token]) = Zero

\* strategy i lacks a factor of its weighted product: an amount of a token
\* with coefficient > 0, or the validator balance with validatorCoefficient > 0
LacksFactor(i) ==
  \/ \E j \in 1..Len(options.coefficients) :
       /\ NumGreater(options.coefficients[j].coefficient, Zero)
       /\ ZeroOrAbsent(Items[i], options.coefficients[j].token)
  \/ /\ NumGreater(ValidatorCoefficientOf(options), Zero)
     /\ OrZero(Items[i].validatorBalanceWeight) = Zero

\* C12: under the geometric mean, a strategy with a zero or absent amount of a
\* token with coefficient > 0, or a zero validator balance while
\* validatorCoefficient > 0, has weight exactly 0, whatever the others hold.
C12_MissingFactorGivesZero ==
  (MeanReturned /\ calculationType = "geometric" /\ DistinctIds)
    => \A i \in 1..Len(Items) : LacksFactor(i) => WeightOf(i) = Zero

\* C13: under the geometric mean, every strategy with a finite logSum (0
\* included) has a weight > 0, and a strategy with logSum -Infinity has
\* weight 0.
C13_FiniteLogSumGivesPositiveWeight ==
  (MeanReturned /\ calculationType = "geometric" /\ DistinctIds)
    => \A i \in 1..Len(Items) :
         /\ IsFinite(LogSumOf(i)) => NumGreater(WeightOf(i), Zero)
         /\ LogSumOf(i) = NegInfinity => WeightOf(i) = Zero

\* C14 as stated: under the geometric mean, the weights of two strategies with
\* finite logSum stand in the ratio exp(logSum_a) : exp(logSum_b), the
\* exponent not divided by the total coefficient.
C14_RatioOfWeightedProducts ==
  (MeanReturned /\ calculationType = "geometric" /\ DistinctIds)
    => \A a, b \in 1..Len(Items) :
         (IsFinite(LogSumOf(a)) /\ IsFinite(LogSumOf(b)))
           => NumMul(WeightOf(a), MathExp(LogSumOf(b)))
                = NumMul(WeightOf(b), MathExp(LogSumOf(a)))

\* exp(logSum / C), and 0 for a logSum of exactly 0
RootOfProduct(logSum) ==
  IF logSum = Zero THEN Zero ELSE MathExp(NumDiv(logSum, TotalCoefficient))

\* C14: under the geometric mean, the weights of two strategies with finite
\* logSum stand in the ratio exp(logSum_a / C) : exp(logSum_b / C), the
\* exponent divided by the total coefficient C, where a strategy whose logSum
\* is exactly 0 counts with 0.
C14_RatioOfWeightedRoots ==
  (MeanReturned /\ calculationType = "geometric" /\ DistinctIds)
    => \A a, b \in 1..Len(Items) :
         (IsFinite(LogSumOf(a)) /\ IsFinite(LogSumOf(b)))
           => NumMul(WeightOf(a), RootOfProduct(LogSumOf(b)))
                = NumMul(WeightOf(b), RootOfProduct(LogSumOf(a)))

\* two strategies with logSum 12 and -12 under C = 2: weights in the ratio
\* 2^6 : 2^-6
C14_Witness ==
  /\ MeanReturned
  /\ calculationType = "geometric"
  /\ Len(Items) = 2
  /\ DistinctIds
  /\ TotalCoefficient = Int2Num(2)
  /\ LogSumOf(1) = Int2Num(12)
  /\ LogSumOf(2) = Int2Num(-12)
  /\ NumMul(WeightOf(2), Int2Num(4096)) = WeightOf(1)

\* the score of strategy i: the sum of coefficient * amount over the tokens,
\* plus validatorCoefficient * validatorBalance
ScoreOf(i) ==
  calculateWeightTotals(Items[i], options.coefficients, ValidatorCoefficientOf(options))

TotalScore == SumF[[i \in 1..Len(Items) |-> ScoreOf(i)], Len(Items)]

\* C15: under the arithmetic mean with C > 0 and a nonzero total, the weight
\* of each strategy is its score divided by the sum of all strategies' scores.
C15_ArithmeticWeightIsScoreShare ==
  (/\ MeanReturned
   /\ calculationType = "arithmetic"
   /\ DistinctIds
   /\ NumGreater(TotalCoefficient, Zero)
   /\ TotalScore # Zero)
    => \A i \in 1..Len(Items) : WeightOf(i) = NumDiv(ScoreOf(i), TotalScore)

\* one token with coefficient 2, amounts 1 and 64, validatorCoefficient 1 and
\* validator balances 1 and 64: scores 3 and 192, weights 1/65 and 64/65
C15_Witness ==
  /\ MeanReturned
  /\ calculationType = "arithmetic"
  /\ Len(Items) = 2
  /\ TotalCoefficient = Int2Num(3)
  /\ ScoreOf(1) = Int2Num(3)
  /\ ScoreOf(2) = Int2Num(192)
  /\ wmResult.map = <<[key |-> "1", value |-> Fin(1, 65)], [key |-> "2", value |-> Fin(64, 65)]>>

RatioSumOf(i) ==
  calculateWeightedRatioSum(Items[i], options.coefficients, ValidatorCoefficientOf(options))

\* C16: under the harmonic mean, a strategy whose ratio sum is 0 has weight 0,
\* and the weights of the other strategies sum to 1 when one of them has a
\* nonzero ratio sum.
C16_ZeroRatioSumGivesZero ==
  (MeanReturned /\ calculationType = "harmonic" /\ DistinctIds)
    => /\ \A i \in 1..Len(Items) : RatioSumOf(i) = Zero => WeightOf(i) = Zero
       /\ (\E i \in 1..Len(Items) : RatioSumOf(i) # Zero)
            => SumF[[i \in 1..Len(Items) |->
                       IF RatioSumOf(i) # Zero THEN WeightOf(i) ELSE Zero],
                    Len(Items)] = One

\* C20: the result of a mean function is unchanged when the letter case of a
\* token key of a strategy is changed.
C20_TokenCaseIgnored == wmCall = "recased" => wmResult = wmBefore

(***************************************************************************)
(* Risk-Normalized Obligation Engine                                       *)
(* (calculateSimulationParticipantWeights, simulation-utils.ts).           *)
(*   UIStrategy : [id, strategy, tokenWeights, validatorBalanceWeight]     *)
(*   id and strategy are JavaScript values: undefined, a number or a       *)
(*   string; a depositAmount that is undefined is the empty string, which  *)
(*   every test of the code treats alike                                   *)
(***************************************************************************)
JsUndefined == [t |-> "undefined", n |-> 0, s |-> ""]

JsNumber(n) == [t |-> "number", n |-> n, s |-> ""]

JsString(str) == [t |-> "string", n |-> 0, s |-> str]

\* a value as a condition: undefined, 0 and "" are falsy
JsTruthy(v) ==
  CASE v.t = "number" -> v.n # 0
    [] v.t = "string" -> v.s # ""
    [] OTHER -> FALSE

JsToString(v) == IF v.t = "string" THEN v.s ELSE NumberToString(Int2Num(v.n))

\* (strategy.id || strategy.strategy)?.toString(); "" stands for undefined,
\* which `if (!strategyId) continue` skips like the empty string
StrategyIdOf(strategy) ==
  LET v == IF JsTruthy(strategy.id) THEN strategy.id ELSE strategy.strategy
  IN IF v.t = "undefined" THEN "" ELSE JsToString(v)

\* whether BigInt(s) raises a SyntaxError: the string is no integer literal
BigIntThrows(s) == s \notin {"0", "400", "600", "-400"}

\* BigInt(s), and Number() of it
BigInt(s) ==
  CASE s = "400" -> 400
    [] s = "600" -> 600
    [] s = "-400" -> -400
    [] OTHER -> 0

\* Math.exp(-x) of the risk engine in ten-thousandths, rounded to four
\* decimals, for x a multiple of 1/40 from 0 to 8/40 (beta = 0.05 times a
\* risk that is a multiple of 0.5); the risks of the sample inputs stay
\* within the table
ExpNegTable ==
  <<10000, 9753, 9512, 9277, 9048, 8825, 8607, 8395, 8187>>

MathExpNegF[x \in Nums] == Fin(ExpNegTable[((x.n * 40) \div x.d) + 1], 10000)

MathExpNeg(x) == MathExpNegF[x]

\* Math.max(1, x)
MaxWithOneF[x \in Nums] == IF NumLess(x, One) THEN One ELSE x

MaxWithOne(x) == MaxWithOneF[x]

\* const beta = 0.05
Beta == Fin(5, 100)

\* The shapes of the values the function is called with. Its operators are
\* functions over these shapes, so that each is applied to values.
JsValues == [t : {"undefined", "number", "string"}, n : Int, s : STRING]

TokenWeightT == [token : STRING, weight : Nums, depositAmount : STRING]

UIStrategyT ==
  [id : JsValues, strategy : JsValues, tokenWeights : Seq(TokenWeightT),
   validatorBalanceWeight : Nums]

ApiStrategyT == [id : STRING, tokenWeights : Seq([token : STRING, weight : Nums])]

TokenCoefficientT == [token : STRING, coefficient : Nums]

\* originalTokensWithWeights.get(strategyId) || new Set(): the tokens with a
\* weight > 0 in the remote data of that strategy id (the last entry with the
\* id wins in the Map), plus every configured token, lower-cased
AllowedTokensF[apiData \in Seq(ApiStrategyT), coefficients \in Seq(TokenCoefficientT), strategyId \in STRING] ==
  LET hits == { i \in 1..Len(apiData) : apiData[i].id = strategyId }
  IN IF hits = {} THEN {}
     ELSE LET tws == apiData[CHOOSE i \in hits : \A j \in hits : j <= i].tokenWeights
          IN { toLowerCase(tws[j].token) :
                 j \in { j \in 1..Len(tws) : NumGreater(tws[j].weight, Zero) } }
               \cup { toLowerCase(coefficients[j].token) : j \in 1..Len(coefficients) }

AllowedTokens(apiData, coefficients, strategyId) ==
  AllowedTokensF[apiData, coefficients, strategyId]

\* What every loop over simulationStrategies derives from a strategy before
\* anything else: strategyId and allowedTokens, next to the fields it reads.
LoopStrategyT ==
  [strategyId : STRING, allowedTokens : SUBSET STRING,
   tokenWeights : Seq(TokenWeightT), validatorBalanceWeight : Nums]

LoopStrategies(strategies, coefficients, apiData) ==
  [i \in 1..Len(strategies) |->
     [strategyId |-> StrategyIdOf(strategies[i]),
      allowedTokens |-> AllowedTokens(apiData, coefficients, StrategyIdOf(strategies[i])),
      tokenWeights |-> strategies[i].tokenWeights,
      validatorBalanceWeight |-> strategies[i].validatorBalanceWeight]]

\* whether the first pass adds the entry to tokenRisks under the token
CountsForRisk(tw, allowedTokens, token) ==
  /\ tw.token # ""
  /\ tw.depositAmount # ""
  /\ toLowerCase(tw.token) = token
  /\ NumGreater(parseFloat(tw.depositAmount), Zero)
  /\ token \in allowedTokens

\* tokenRisks.get(token) after the first i entries of a strategy: the sum of
\* weight / 10000 over the entries that count
TokenRiskF[strategy \in LoopStrategyT, token \in STRING, i \in Nat] ==
  IF i = 0 THEN Zero
  ELSE IF CountsForRisk(strategy.tokenWeights[i], strategy.allowedTokens, token)
       THEN NumAdd(TokenRiskF[strategy, token, i - 1],
                   NumDiv(OrZero(strategy.tokenWeights[i].weight), Int2Num(10000)))
       ELSE TokenRiskF[strategy, token, i - 1]

TokenRiskOf(strategy, token) ==
  TokenRiskF[strategy, token, Len(strategy.tokenWeights)]

\* whether the first pass records a risk of the token for the strategy
HasTokenRisk(strategy, token) ==
  /\ strategy.strategyId # ""
  /\ \E i \in 1..Len(strategy.tokenWeights) :
       CountsForRisk(strategy.tokenWeights[i], strategy.allowedTokens, token)

\* riskByTokenAndStrategy.get(token)?.get(strategyId) ?? 0 after the first
\* pass: the last strategy with the id that records a risk of the token wins
RiskByTokenAndStrategyF[loop \in Seq(LoopStrategyT), token \in STRING, strategyId \in STRING] ==
  LET hits == { i \in 1..Len(loop) :
                  loop[i].strategyId = strategyId /\ HasTokenRisk(loop[i], token) }
  IN IF hits = {} THEN Zero
     ELSE TokenRiskOf(loop[CHOOSE i \in hits : \A j \in hits : j <= i], token)

RiskByTokenAndStrategy(loop, token, strategyId) ==
  RiskByTokenAndStrategyF[loop, token, strategyId]

\* strategy.tokenWeights?.find(tw => tw.token.toLowerCase() === tokenAddress):
\* the index of the first entry of the token, or 0
FindTokenWeight(strategy, tokenAddress) ==
  LET hits == { i \in 1..Len(strategy.tokenWeights) :
                  toLowerCase(strategy.tokenWeights[i].token) = tokenAddress }
  IN IF hits = {} THEN 0 ELSE CHOOSE i \in hits : \A j \in hits : i <= j

\* the deposit string the loops over a token read from a strategy: "" when the
\* strategy has no id, the token is not allowed for it, or it has no entry
DepositReadF[strategy \in LoopStrategyT, tokenAddress \in STRING] ==
  IF \/ strategy.strategyId = ""
     \/ tokenAddress \notin strategy.allowedTokens
     \/ FindTokenWeight(strategy, tokenAddress) = 0
  THEN ""
  ELSE strategy.tokenWeights[FindTokenWeight(strategy, tokenAddress)].depositAmount

DepositRead(strategy, tokenAddress) == DepositReadF[strategy, tokenAddress]

\* s.tokenWeights?.map(tw => tw.token.toLowerCase()).filter(allowedTokens.has)
\* of the flatMap, over the first i entries; [] for a strategy without id
StrategyTokensF[strategy \in LoopStrategyT, i \in Nat] ==
  IF i = 0 THEN <<>>
  ELSE IF /\ strategy.strategyId # ""
          /\ toLowerCase(strategy.tokenWeights[i].token) \in strategy.allowedTokens
       THEN Append(StrategyTokensF[strategy, i - 1],
                   toLowerCase(strategy.tokenWeights[i].token))
       ELSE StrategyTokensF[strategy, i - 1]

\* simulationStrategies.flatMap(...) over the first i strategies
FlatMapF[loop \in Seq(LoopStrategyT), i \in Nat] ==
  IF i = 0 THEN <<>>
  ELSE FlatMapF[loop, i - 1] \o StrategyTokensF[loop[i], Len(loop[i].tokenWeights)]

\* a Set's add: an element that is present keeps its place
SetAddF[seq \in Seq(STRING), x \in STRING] ==
  IF \E j \in 1..Len(seq) : seq[j] = x THEN seq ELSE Append(seq, x)

\* Array.from(new Set(all)) over the first i elements
ArrayFromSetF[all \in Seq(STRING), i \in Nat] ==
  IF i = 0 THEN <<>> ELSE SetAddF[ArrayFromSetF[all, i - 1], all[i]]

\* tokenAddresses: the allowed tokens of the strategies, lower-cased, in the
\* order of their first occurrence
TokenAddresses(loop) ==
  ArrayFromSetF[FlatMapF[loop, Len(loop)], Len(FlatMapF[loop, Len(loop)])]

\* totalObligatedBalance of a token after the first i strategies: the sum of
\* BigInt(deposit) over the strategies' first entries of the token
TotalObligatedBalanceF[loop \in Seq(LoopStrategyT), tokenAddress \in STRING, i \in Nat] ==
  IF i = 0 THEN 0
  ELSE TotalObligatedBalanceF[loop, tokenAddress, i - 1]
         + BigInt(DepositRead(loop[i], tokenAddress))

TotalObligatedBalance(loop, tokenAddress) ==
  TotalObligatedBalanceF[loop, tokenAddress, Len(loop)]

\* whether the loop over a token pushes a term for the strategy: it has a
\* deposit string for the token and BigInt of it is not 0n
HasTerm(strategy, tokenAddress) ==
  /\ DepositRead(strategy, tokenAddress) # ""
  /\ BigInt(DepositRead(strategy, tokenAddress)) # 0

\* Math.exp(-beta * risk) with the risk floored at 1
ExponentialTerm(risk) == MathExpNeg(NumMul(Beta, MaxWithOne(risk)))

\* term = (Number(obligatedBalance) / Number(totalObligatedBalance))
\*          * exponentialTerm
TermF[obligatedBalance \in Int, totalObligatedBalance \in Int, risk \in Nums] ==
  NumMul(NumDiv(Int2Num(obligatedBalance), Int2Num(totalObligatedBalance)),
         ExponentialTerm(risk))

\* the term of strategy i for a token
TermOf(loop, tokenAddress, totalObligatedBalance, i) ==
  TermF[BigInt(DepositRead(loop[i], tokenAddress)), totalObligatedBalance,
        RiskByTokenAndStrategy(loop, tokenAddress, loop[i].strategyId)]

\* tempWeights of a token after the first i strategies
TempWeightsF[loop \in Seq(LoopStrategyT), tokenAddress \in STRING, totalObligatedBalance \in Int, i \in Nat] ==
  IF i = 0 THEN <<>>
  ELSE IF HasTerm(loop[i], tokenAddress)
       THEN Append(TempWeightsF[loop, tokenAddress, totalObligatedBalance, i - 1],
                   [strategyId |-> loop[i].strategyId,
                    weight |-> TermOf(loop, tokenAddress, totalObligatedBalance, i)])
       ELSE TempWeightsF[loop, tokenAddress, totalObligatedBalance, i - 1]

TempWeightT == [strategyId : STRING, weight : Nums]

\* normalizationDenominator: the sum of the first i terms
NormalizationDenominatorF[tempWeights \in Seq(TempWeightT), i \in Nat] ==
  IF i = 0 THEN Zero
  ELSE NumAdd(NormalizationDenominatorF[tempWeights, i - 1], tempWeights[i].weight)

\* cToken = normalizationDenominator === 0 ? 0 : 1 / normalizationDenominator
CTokenF[normalizationDenominator \in Nums] ==
  IF normalizationDenominator = Zero THEN Zero
  ELSE NumDiv(One, normalizationDenominator)

\* a cToken that leaves the terms as they are
CToken_NotInverted(normalizationDenominator) == One

CToken(normalizationDenominator) == CTokenF[normalizationDenominator]

\* finalWeight = weight * cToken, pushed with the token for every term
FinalWeightsF[tempWeights \in Seq(TempWeightT), tokenAddress \in STRING, cToken \in Nums] ==
  [i \in 1..Len(tempWeights) |->
     [strategyId |-> tempWeights[i].strategyId,
      token |-> tokenAddress,
      weight |-> NumMul(tempWeights[i].weight, cToken)]]

\* the pushes of the terms of one token
NormalizeF[tempWeights \in Seq(TempWeightT), tokenAddress \in STRING] ==
  FinalWeightsF[tempWeights, tokenAddress,
                CToken(NormalizationDenominatorF[tempWeights, Len(tempWeights)])]

\* the body of the loop over tokenAddresses for a token with this total; a
\* token whose total is 0n is skipped
TokenWeightsF[loop \in Seq(LoopStrategyT), tokenAddress \in STRING, totalObligatedBalance \in Int] ==
  IF totalObligatedBalance = 0 THEN <<>>
  ELSE NormalizeF[TempWeightsF[loop, tokenAddress, totalObligatedBalance, Len(loop)],
                  tokenAddress]

TokenWeightsOf(loop, tokenAddress) ==
  TokenWeightsF[loop, tokenAddress, TotalObligatedBalance(loop, tokenAddress)]

\* every {strategyId, token, weight} the loop over the first t token
\* addresses pushes, in the order of the pushes
AllTokenWeightsF[loop \in Seq(LoopStrategyT), tokenAddresses \in Seq(STRING), t \in Nat] ==
  IF t = 0 THEN <<>>
  ELSE AllTokenWeightsF[loop, tokenAddresses, t - 1]
         \o TokenWeightsOf(loop, tokenAddresses[t])

AllTokenWeights(loop) ==
  AllTokenWeightsF[loop, TokenAddresses(loop), Len(TokenAddresses(loop))]

\* a last loop that divides by totalBAppBalance, the sum of the strategies'
\* validatorBalanceWeight, and leaves the field unset when the sum is not > 0
TotalBAppBalanceF[weights \in Seq(Nums), i \in Nat] ==
  IF i = 0 THEN Zero ELSE NumAdd(TotalBAppBalanceF[weights, i - 1], OrZero(weights[i]))

TotalBAppBalance(strategies) ==
  TotalBAppBalanceF[[i \in 1..Len(strategies) |-> strategies[i].validatorBalanceWeight],
                    Len(strategies)]

ValidatorBalanceWeightOf_Normalized(loop, strategyId) ==
  LET hits == { i \in 1..Len(loop) : loop[i].strategyId = strategyId }
  IN IF hits = {} \/ ~NumGreater(TotalBAppBalance(loop), Zero)
     THEN undefined
     ELSE NumDiv(OrZero(loop[CHOOSE i \in hits : \A j \in hits : j <= i]
                          .validatorBalanceWeight),
                 TotalBAppBalance(loop))

\* the last loop: the validatorBalanceWeight of the last strategy with the id
\* that defines one, copied as it is
ValidatorBalanceWeightOf(loop, strategyId) ==
  LET hits == { i \in 1..Len(loop) :
                  /\ loop[i].strategyId = strategyId
                  /\ loop[i].validatorBalanceWeight # undefined }
  IN IF hits = {} THEN undefined
     ELSE loop[CHOOSE i \in hits : \A j \in hits : j <= i].validatorBalanceWeight

\* strategyWeightsMap.set(strategyId, ...) of the first pass: the keys in
\* insertion order after the first i strategies
StrategyWeightKeysF[loop \in Seq(LoopStrategyT), i \in Nat] ==
  IF i = 0 THEN <<>>
  ELSE IF loop[i].strategyId = "" THEN StrategyWeightKeysF[loop, i - 1]
       ELSE SetAddF[StrategyWeightKeysF[loop, i - 1], loop[i].strategyId]

StrategyWeightKeys(loop) == StrategyWeightKeysF[loop, Len(loop)]

\* a BigInt() of the loops over a token raises a SyntaxError, which rejects
\* the promise of the call
ParticipantWeightsThrowF[loop \in Seq(LoopStrategyT), tokenAddresses \in Seq(STRING)] ==
  \E t \in 1..Len(tokenAddresses) : \E i \in 1..Len(loop) :
    /\ DepositRead(loop[i], tokenAddresses[t]) # ""
    /\ BigIntThrows(DepositRead(loop[i], tokenAddresses[t]))

ParticipantWeightsThrow(loop) == ParticipantWeightsThrowF[loop, TokenAddresses(loop)]

PWThrew == [threw |-> TRUE, list |-> <<>>]

PushedT == [strategyId : STRING, token : STRING, weight : Nums]

\* strategyWeight.tokenWeights of one key: its pushes, in order
TokenWeightsFor(pushed, strategyId) ==
  LET own == SelectSeq(pushed, LAMBDA p : p.strategyId = strategyId)
  IN [i \in 1..Len(own) |-> [token |-> own[i].token, weight |-> own[i].weight]]

\* Array.from(strategyWeightsMap.values())
StrategyWeightsF[loop \in Seq(LoopStrategyT), keys \in Seq(STRING), pushed \in Seq(PushedT)] ==
  [k \in 1..Len(keys) |->
     [id |-> keys[k],
      tokenWeights |-> TokenWeightsFor(pushed, keys[k]),
      validatorBalanceWeight |-> ValidatorBalanceWeightOf(loop, keys[k])]]

\* the function after the await, on the strategies as its loops read them
ParticipantWeightsF[loop \in Seq(LoopStrategyT)] ==
  IF ParticipantWeightsThrow(loop) THEN PWThrew
  ELSE [threw |-> FALSE,
        list |-> StrategyWeightsF[loop, StrategyWeightKeys(loop), AllTokenWeights(loop)]]

\* the part of calculateSimulationParticipantWeights after the await, with
\* apiData what getParticipantWeights resolved to
calculateSimulationParticipantWeights(strategies, coefficients, apiData) ==
  ParticipantWeightsF[LoopStrategies(strategies, coefficients, apiData)]

(***************************************************************************)
(* The inputs of the participant-weight calls and the remote data.         *)
(***************************************************************************)
TokenWeight(token, weight, depositAmount) ==
  [token |-> token, weight |-> Int2Num(weight), depositAmount |-> depositAmount]

\* what one simulation strategy holds: its tokenWeights and its
\* validatorBalanceWeight
SampleSimulationHoldings ==
  { [tokenWeights |-> <<>>, validatorBalanceWeight |-> undefined],
    [tokenWeights |-> <<TokenWeight("0xa", 0, "400")>>,
     validatorBalanceWeight |-> One],
    [tokenWeights |-> <<TokenWeight("0xa", 0, "600")>>,
     validatorBalanceWeight |-> Int2Num(3)],
    [tokenWeights |-> <<TokenWeight("0xA", 20000, "600")>>,
     validatorBalanceWeight |-> Zero],
    [tokenWeights |-> <<TokenWeight("0xa", 15000, "0"), TokenWeight("0xa", 15000, "400")>>,
     validatorBalanceWeight |-> undefined],
    [tokenWeights |-> <<TokenWeight("0xb", 0, "600")>>,
     validatorBalanceWeight |-> Int2Num(3)],
    [tokenWeights |-> <<TokenWeight("0xa", 0, "abc")>>,
     validatorBalanceWeight |-> One],
    [tokenWeights |-> <<TokenWeight("0xa", 0, "-400")>>,
     validatorBalanceWeight |-> One] }

\* id 0 with no strategy field is a strategy without identifier
SampleSimulationIds == {JsNumber(1), JsNumber(2), JsNumber(0)}

SampleSimulationStrategies ==
  { [id |-> id, strategy |-> JsUndefined, tokenWeights |-> h.tokenWeights,
     validatorBalanceWeight |-> h.validatorBalanceWeight] :
      id \in SampleSimulationIds, h \in SampleSimulationHoldings }

ApiStrategy(id, tokenWeights) == [id |-> id, tokenWeights |-> tokenWeights]

\* what getParticipantWeights can resolve to: [] (also after any error, which
\* it catches), or the strategies of the remote bApp
ApiResponses ==
  { <<>>,
    <<ApiStrategy("1", <<>>),
      ApiStrategy("2", <<[token |-> "0xB", weight |-> One]>>)>>,
    <<ApiStrategy("2", <<>>)>> }

SampleTokenCoefficients == { <<>>, <<Coeff("0xA", 1)>> }

NoPWResult == [threw |-> FALSE, list |-> <<>>]

InitParticipant ==
  /\ UiIdle
  /\ strategyTokenWeights = UndefinedList
  /\ options = UndefinedOptions
  /\ calculationType = "arithmetic"
  /\ wmCall = "none"
  /\ wmResult = NoResult
  /\ wmBefore = NoResult
  /\ wmRaised = 0
  /\ wmToken = ""
  /\ simulationStrategies
       \in SeqsUpTo(SampleSimulationStrategies, MaxSimulationStrategies)
  /\ tokenCoefficients \in SampleTokenCoefficients
  /\ pwPc = "idle"
  /\ pwCalls = 0
  /\ pwApiData = <<>>
  /\ pwResult = NoPWResult
  /\ pwFirst = NoPWResult

\* the call runs up to `await getParticipantWeights(...)`
StartParticipantWeights ==
  /\ pwPc \in {"idle", "done"}
  /\ pwCalls < 2
  /\ pwPc' = "awaiting"
  /\ pwFirst' = IF pwCalls = 1 THEN pwResult ELSE pwFirst
  /\ UNCHANGED <<simulationStrategies, tokenCoefficients, pwCalls, pwApiData, pwResult, wmVars, uiVars>>

\* getParticipantWeights resolves and the call runs to its end
ResumeParticipantWeights ==
  /\ pwPc = "awaiting"
  /\ \E response \in ApiResponses :
       /\ pwApiData' = response
       /\ pwResult' = calculateSimulationParticipantWeights(
                        simulationStrategies, tokenCoefficients, response)
  /\ pwPc' = "done"
  /\ pwCalls' = pwCalls + 1
  /\ UNCHANGED <<simulationStrategies, tokenCoefficients, pwFirst, wmVars, uiVars>>

NextParticipant ==
  \/ StartParticipantWeights
  \/ ResumeParticipantWeights

SpecParticipant == InitParticipant /\ [][NextParticipant]_vars

(***************************************************************************)
(* Properties of the participant-weight calls.                             *)
(***************************************************************************)
\* a call has run to its end and returned a list
PWReturned == pwCalls > 0 /\ ~pwResult.threw

ResultEntryT == [token : STRING, weight : Nums]

Range(seq) == { seq[i] : i \in 1..Len(seq) }

ResultT ==
  [id : STRING, tokenWeights : Seq(ResultEntryT), validatorBalanceWeight : Nums]

\* the {token, weight} entries of the first k elements of a result
ResultEntriesF[list \in Seq(ResultT), k \in Nat] ==
  IF k = 0 THEN <<>> ELSE ResultEntriesF[list, k - 1] \o list[k].tokenWeights

\* the entries of one token in the returned list, over all strategies
TokenEntries(token) ==
  SelectSeq(ResultEntriesF[pwResult.list, Len(pwResult.list)],
            LAMBDA e : e.token = token)

WeightSumF[entries \in Seq(ResultEntryT), i \in Nat] ==
  IF i = 0 THEN Zero ELSE NumAdd(WeightSumF[entries, i - 1], entries[i].weight)

\* the tokens the strategies of the call name, lower-cased
NamedTokens ==
  UNION { { toLowerCase(simulationStrategies[i].tokenWeights[j].token) :
              j \in 1..Len(simulationStrategies[i].tokenWeights) } :
          i \in 1..Len(simulationStrategies) }

\* C5: in a returned result, the weights of every token that has an entry sum
\* to 1 over all strategies, and a token whose total obligated balance is 0
\* has no entry in any strategy.
C5_TokenWeightsSumToOne ==
  PWReturned =>
    \A token \in NamedTokens :
      /\ Len(TokenEntries(token)) > 0
           => WeightSumF[TokenEntries(token), Len(TokenEntries(token))] = One
      /\ TotalObligatedBalance(
           LoopStrategies(simulationStrategies, tokenCoefficients, pwApiData), token) = 0
           => Len(TokenEntries(token)) = 0

\* two strategies share a token with different risks, so the two entries of
\* the token differ
C5_Witness ==
  /\ PWReturned
  /\ Len(pwResult.list) = 2
  /\ Len(TokenEntries("0xa")) = 2
  /\ TokenEntries("0xa")[1].weight # TokenEntries("0xa")[2].weight

\* the identifier a strategy is given with: its id, or else its strategy field
IdentifierOf(strategy) ==
  JsToString(IF strategy.id.t # "undefined" THEN strategy.id ELSE strategy.strategy)

\* C6: a returned result has exactly one entry per input strategy, in input
\* order, each with the identifier of its strategy.
C6_OneEntryPerStrategy ==
  PWReturned =>
    /\ Len(pwResult.list) = Len(simulationStrategies)
    /\ \A i \in 1..Len(simulationStrategies) :
         pwResult.list[i].id = IdentifierOf(simulationStrategies[i])

C8_ResultDeterminedByArguments ==
  (pwCalls = 2 /\ pwPc = "done") => pwResult = pwFirst

\* every strategy of the call has an identifier of its own
DistinctSimulationIds ==
  \A i, j \in 1..Len(simulationStrategies) :
    /\ StrategyIdOf(simulationStrategies[i]) # ""
    /\ StrategyIdOf(simulationStrategies[i]) = StrategyIdOf(simulationStrategies[j]) => i = j

\* the deposit of strategy i in a token: that of its first entry of the token
DepositOf(i, token) ==
  IF FindTokenWeight(simulationStrategies[i], token) = 0 THEN 0
  ELSE BigInt(simulationStrategies[i]
                .tokenWeights[FindTokenWeight(simulationStrategies[i], token)].depositAmount)

DepositSumF[token \in STRING, i \in Nat] ==
  IF i = 0 THEN 0 ELSE DepositSumF[token, i - 1] + DepositOf(i, token)

\* the accumulated risk of strategy i in a token, floored at 1
EffectiveRiskOf(i, token) ==
  MaxWithOne(TokenRiskOf([strategyId |-> StrategyIdOf(simulationStrategies[i]),
                          allowedTokens |-> {token},
                          tokenWeights |-> simulationStrategies[i].tokenWeights,
                          validatorBalanceWeight |-> undefined],
                         token))

\* the returned list holds this weight of the token for strategy i
HasTokenWeight(i, token, weight) ==
  \E k \in 1..Len(pwResult.list) :
    /\ pwResult.list[k].id = IdentifierOf(simulationStrategies[i])
    /\ \E j \in 1..Len(pwResult.list[k].tokenWeights) :
         pwResult.list[k].tokenWeights[j] = [token |-> token, weight |-> weight]

\* the strategies with a deposit in the token
Depositors(token) == { i \in 1..Len(simulationStrategies) : DepositOf(i, token) # 0 }

\* C17: in a returned result, for a token whose depositing strategies all have
\* the same effective risk, the weight of each depositing strategy is its
\* deposit divided by the sum of the deposits.
C17_EqualRiskGivesDepositShare ==
  PWReturned =>
    \A token \in NamedTokens :
      (/\ DepositSumF[token, Len(simulationStrategies)] # 0
       /\ \A a, b \in Depositors(token) :
            EffectiveRiskOf(a, token) = EffectiveRiskOf(b, token))
        => \A i \in Depositors(token) :
             HasTokenWeight(i, token,
                            NumDiv(Int2Num(DepositOf(i, token)),
                                   Int2Num(DepositSumF[token, Len(simulationStrategies)])))

\* the sharedRiskLevel values a token can be configured with; 500 is the default
SharedRiskLevels == {500, 1000}

\* C18: in a returned result, the weights of two strategies in a token stand
\* in the ratio of deposit * exp(-beta * risk) with beta the sharedRiskLevel
\* the token is configured with, divided by 10000, whatever that level is.
C18_BetaIsSharedRiskLevel ==
  (PWReturned /\ DistinctSimulationIds) =>
    \A level \in SharedRiskLevels : \A token \in NamedTokens :
      \A a, b \in Depositors(token) : \A wa, wb \in { e.weight : e \in Range(TokenEntries(token)) } :
        (HasTokenWeight(a, token, wa) /\ HasTokenWeight(b, token, wb))
          => NumMul(wa, NumMul(Int2Num(DepositOf(b, token)),
                               MathExpNeg(NumMul(Fin(level, 10000), EffectiveRiskOf(b, token)))))
               = NumMul(wb, NumMul(Int2Num(DepositOf(a, token)),
                                   MathExpNeg(NumMul(Fin(level, 10000), EffectiveRiskOf(a, token)))))

\* C19: a call never raises, whatever the deposit amount strings are.
C19_MalformedDepositNeverRaises == pwCalls > 0 => ~pwResult.threw

(***************************************************************************)
(* The conversion of UI strategies to the strategy list of the mean        *)
(* functions (convertUIStrategiesToStrategyTokenWeight) and the keys the   *)
(* renderers look weights up with.                                         *)
(***************************************************************************)
\* Number(s) of an identifier string: a digit is its number, any other text NaN
StringToNumber(s) ==
  IF \E d \in 1..Len(DigitStrings) : DigitStrings[d] = s
  THEN Int2Num((CHOOSE d \in 1..Len(DigitStrings) : DigitStrings[d] = s) - 1)
  ELSE NaN

\* Number(strategy.id || strategy.strategy || 0)
StrategyNumberOf(strategy) ==
  LET v == IF JsTruthy(strategy.id) THEN strategy.id
           ELSE IF JsTruthy(strategy.strategy) THEN strategy.strategy
           ELSE JsNumber(0)
  IN IF v.t = "number" THEN Int2Num(v.n) ELSE StringToNumber(v.s)

\* the deposit amounts of the UI, in wei: 1, 64 and 1/64 ether, zero and a
\* string that is no number
WeiStrings ==
  {"0", "15625000000000000", "1000000000000000000", "64000000000000000000", "abc"}

\* parseFloat(tw.depositAmount) / Math.pow(10, 18)
AmountInEther(depositAmount) ==
  CASE depositAmount = "0" -> Zero
    [] depositAmount = "15625000000000000" -> Fin(1, 64)
    [] depositAmount = "1000000000000000000" -> One
    [] depositAmount = "64000000000000000000" -> Int2Num(64)
    [] OTHER -> NaN

\* amountInEther.toString()
EtherToString(amountInEther) ==
  CASE amountInEther = Fin(1, 64) -> "0.015625"
    [] amountInEther = One -> "1"
    [] amountInEther = Int2Num(64) -> "64"
    [] amountInEther = Zero -> "0"
    [] OTHER -> "NaN"

\* tw.token && tw.depositAmount, and amountInEther > 0
IsConvertedEntry(tw) ==
  /\ Truthy(tw.token)
  /\ Truthy(tw.depositAmount)
  /\ NumGreater(AmountInEther(tw.depositAmount), Zero)

\* the tokens object the forEach builds: a later entry of a token overwrites
\* an earlier one
ConvertedTokens(tokenWeights) ==
  LET kept == { j \in 1..Len(tokenWeights) : IsConvertedEntry(tokenWeights[j]) }
      LastOf(t) == CHOOSE j \in kept :
                     /\ tokenWeights[j].token = t
                     /\ \A k \in kept : tokenWeights[k].token = t => k <= j
  IN [t \in { tokenWeights[j].token : j \in kept } |->
        EtherToString(AmountInEther(tokenWeights[LastOf(t)].depositAmount))]

convertUIStrategiesToStrategyTokenWeight(uiStrategies) ==
  [i \in 1..Len(uiStrategies) |->
     [strategy |-> StrategyNumberOf(uiStrategies[i]),
      tokens |-> ConvertedTokens(uiStrategies[i].tokenWeights),
      validatorBalanceWeight |-> OrZero(uiStrategies[i].validatorBalanceWeight)]]

\* the numeric ids of fetched strategies and the ids "S<n>" handleAddStrategy
\* gives to simulated ones
SampleUIIds == {JsNumber(1), JsNumber(2), JsString("S1"), JsString("S2")}

SampleUIHoldings ==
  { [tokenWeights |-> <<TokenWeight("0xa", 0, "1000000000000000000")>>,
     validatorBalanceWeight |-> One],
    [tokenWeights |-> <<TokenWeight("0xa", 0, "64000000000000000000"),
                        TokenWeight("0xb", 0, "15625000000000000")>>,
     validatorBalanceWeight |-> Int2Num(64)],
    [tokenWeights |-> <<TokenWeight("0xa", 0, "0"), TokenWeight("0xb", 0, "abc")>>,
     validatorBalanceWeight |-> undefined] }

\* handleAddStrategy and the fetch set id and strategy to the same value
SampleUIStrategies ==
  { [id |-> id, strategy |-> id, tokenWeights |-> h.tokenWeights,
     validatorBalanceWeight |-> h.validatorBalanceWeight] :
      id \in SampleUIIds, h \in SampleUIHoldings }

ConversionOptions ==
  { [defined |-> TRUE, hasCoefficients |-> TRUE, coefficients |-> c,
     validatorCoefficient |-> v] :
      c \in {<<>>, <<Coeff("0xa", 1)>>, <<Coeff("0xa", 1), Coeff("0xb", 1)>>},
      v \in {Zero, One} }

InitConversion ==
  /\ UiIdle
  /\ strategyTokenWeights = UndefinedList
  /\ options \in ConversionOptions
  /\ calculationType \in CalculationTypes
  /\ wmCall = "none"
  /\ wmResult = NoResult
  /\ wmBefore = NoResult
  /\ wmRaised = 0
  /\ wmToken = ""
  /\ simulationStrategies \in SeqsUpTo(SampleUIStrategies, MaxSimulationStrategies)
  /\ tokenCoefficients = <<>>
  /\ pwPc = "idle"
  /\ pwCalls = 0
  /\ pwApiData = <<>>
  /\ pwResult = NoPWResult
  /\ pwFirst = NoPWResult

\* the UI strategies are converted and the weights are calculated from the
\* converted list
ConvertAndCalculate ==
  /\ wmCall = "none"
  /\ strategyTokenWeights' =
       [defined |-> TRUE,
        items |-> convertUIStrategiesToStrategyTokenWeight(simulationStrategies)]
  /\ wmResult' = calculateSimulationWeights(strategyTokenWeights', options, calculationType)
  /\ wmCall' = "converted"
  /\ UNCHANGED <<options, calculationType, wmBefore, wmRaised, wmToken, pwVars, uiVars>>

NextConversion == ConvertAndCalculate

SpecConversion == InitConversion /\ [][NextConversion]_vars

\* (strategy.id || strategy.strategy)?.toString() of getCalculatedWeight and
\* WeightDisplay
RendererKey(strategy) == StrategyIdOf(strategy)

\* the strategies differ pairwise in the key the renderers use
DistinctRendererKeys ==
  \A i, j \in 1..Len(simulationStrategies) :
    RendererKey(simulationStrategies[i]) = RendererKey(simulationStrategies[j]) => i = j

\* C21: after conversion and calculation, a non-empty result map of strategies
\* with distinct identifiers holds a weight under the key the renderers look
\* up for each strategy, and one key per strategy.
C21_KeysMatchRendererLookup ==
  (/\ wmCall = "converted"
   /\ ~wmResult.threw
   /\ wmResult.map # EmptyMap
   /\ DistinctRendererKeys)
    => /\ \A i \in 1..Len(simulationStrategies) :
            MapHas(wmResult.map, RendererKey(simulationStrategies[i]))
       /\ Len(wmResult.map) = Len(simulationStrategies)

(***************************************************************************)
(* The application component (App.tsx).  A state setter changes the state  *)
(* at once; a render commits the state and runs, in the order of their     *)
(* declaration, the effects whose dependencies differ from those of the    *)
(* render before, each with the values of the render it belongs to.        *)
(***************************************************************************)
\* the engines are not in use
EnginesIdle ==
  /\ strategyTokenWeights = UndefinedList
  /\ options = UndefinedOptions
  /\ calculationType = "arithmetic"
  /\ wmCall = "none"
  /\ wmResult = NoResult
  /\ wmBefore = NoResult
  /\ wmRaised = 0
  /\ wmToken = ""
  /\ simulationStrategies = <<>>
  /\ tokenCoefficients = <<>>
  /\ pwPc = "idle"
  /\ pwCalls = 0
  /\ pwApiData = <<>>
  /\ pwResult = NoPWResult
  /\ pwFirst = NoPWResult

\* the bAppIds the user enters
BAppIds == {DefaultBAppId, "0xaaaa", "0xbbbb"}

notSyncVars == <<wmVars, pwVars, fetchVars, effectVars, delegatedVars, listVars, sdkVars, coefficientVars>>

InitBAppSync ==
  /\ EnginesIdle
  /\ UiIdle

\* the bAppId input of the calculator's ConfigPanel: setConfig({...config, bAppId})
ChangeConfigBAppId ==
  /\ bAppChanges < MaxBAppChanges
  /\ \E bAppId \in BAppIds \ {configBAppId} : configBAppId' = bAppId
  /\ bAppChanges' = bAppChanges + 1
  /\ UNCHANGED <<simulationBAppId, seenConfigBAppId, seenSimulationBAppId, notSyncVars>>

\* the bAppId input of the simulation's ConfigPanel: setSimulationConfig({...config, bAppId})
ChangeSimulationBAppId ==
  /\ bAppChanges < MaxBAppChanges
  /\ \E bAppId \in BAppIds \ {simulationBAppId} : simulationBAppId' = bAppId
  /\ bAppChanges' = bAppChanges + 1
  /\ UNCHANGED <<configBAppId, seenConfigBAppId, seenSimulationBAppId, notSyncVars>>

\* the first effect runs, its dependency config.bAppId having changed, and
\* calls setSimulationConfig
SimulationSyncFires ==
  /\ configBAppId # seenConfigBAppId
  /\ configBAppId # simulationBAppId

\* the second effect runs, its dependency simulationConfig.bAppId having
\* changed, and calls setConfig
ConfigSyncFires ==
  /\ simulationBAppId # seenSimulationBAppId
  /\ simulationBAppId # configBAppId

\* a render after a state change, and the two synchronisation effects of it
RenderAndRunSyncEffects ==
  /\ configBAppId # seenConfigBAppId \/ simulationBAppId # seenSimulationBAppId
  /\ simulationBAppId' = IF SimulationSyncFires THEN configBAppId ELSE simulationBAppId
  /\ configBAppId' = IF ConfigSyncFires THEN simulationBAppId ELSE configBAppId
  /\ seenConfigBAppId' = configBAppId
  /\ seenSimulationBAppId' = simulationBAppId
  /\ UNCHANGED <<bAppChanges, notSyncVars>>

NextBAppSync ==
  \/ ChangeConfigBAppId
  \/ ChangeSimulationBAppId
  \/ RenderAndRunSyncEffects

\* a state change is followed by a render
SpecBAppSync ==
  InitBAppSync /\ [][NextBAppSync]_vars /\ WF_vars(RenderAndRunSyncEffects)

\* both configs hold the same bAppId and no effect is due
BAppIdsSynced ==
  /\ configBAppId = simulationBAppId
  /\ seenConfigBAppId = configBAppId
  /\ seenSimulationBAppId = simulationBAppId

\* C22: after the user's changes of the two bAppIds, the synchronisation
\* effects reach a state where both configs hold the same bAppId and no effect
\* fires again, and stay there.
C22_BAppIdsConverge == <>[]BAppIdsSynced

(***************************************************************************)
(* The fetch effect of the calculator (App.tsx): fetchStrategies is an     *)
(* async function, and a call of it runs up to its next await in one step. *)
(***************************************************************************)
notFetchVars == <<wmVars, pwVars, syncVars, effectVars, delegatedVars, listVars, sdkVars, coefficientVars>>

InitFetch ==
  /\ EnginesIdle
  /\ UiIdle

\* the effect runs after the first render and after a render with another
\* config.bAppId; fetchStrategies runs up to `await getParticipantWeights`
RunFetchEffect ==
  /\ configBAppId # fetchSeenBAppId
  /\ fetchStarted < MaxFetches
  /\ fetchSeenBAppId' = configBAppId
  /\ isLoadingCalculatorData' = TRUE
  /\ fetchStarted' = fetchStarted + 1
  /\ fetches' = fetches \cup {[n |-> fetchStarted + 1, bAppId |-> configBAppId, pc |-> "weights"]}
  /\ UNCHANGED <<fetchOk, strategiesOf, relevantTokensOf, notFetchVars>>

\* getParticipantWeights resolves (it catches every error and resolves to []);
\* the call runs up to `await Promise.all`
ResumeAfterParticipantWeights ==
  \E f \in fetches :
    /\ f.pc = "weights"
    /\ relevantTokensOf' = f.bAppId
    /\ fetches' = (fetches \ {f}) \cup {[f EXCEPT !.pc = "deposits"]}
    /\ UNCHANGED <<fetchSeenBAppId, fetchStarted, fetchOk, strategiesOf,
                   isLoadingCalculatorData, notFetchVars>>

\* Promise.all settles: resolved, the call sets the strategies; rejected (a
\* deposit amount BigInt cannot convert), it logs the error; then `finally`
CompleteFetch ==
  \E f \in fetches : \E resolved \in BOOLEAN :
    /\ f.pc = "deposits"
    /\ strategiesOf' = IF resolved THEN f.bAppId ELSE strategiesOf
    /\ fetchOk' = IF resolved THEN fetchOk \cup {f.n} ELSE fetchOk
    /\ isLoadingCalculatorData' = FALSE
    /\ fetches' = fetches \ {f}
    /\ UNCHANGED <<fetchSeenBAppId, fetchStarted, relevantTokensOf, notFetchVars>>

NextFetch ==
  \/ ChangeConfigBAppId
  \/ RunFetchEffect
  \/ ResumeAfterParticipantWeights
  \/ CompleteFetch

SpecFetch == InitFetch /\ [][NextFetch]_vars

\* C23: once every fetch has completed, the last of them having been started
\* for the current config.bAppId and having set the strategies, the strategies
\* state holds the strategies of the current config.bAppId.
C23_StrategiesOfCurrentBAppId ==
  (/\ fetches = {}
   /\ fetchSeenBAppId = configBAppId
   /\ fetchStarted \in fetchOk)
    => strategiesOf = configBAppId

\* C24: isLoadingCalculatorData is true exactly while a strategy fetch is in
\* flight.
C24_LoadingWhileFetchInFlight == isLoadingCalculatorData <=> fetches # {}

(***************************************************************************)
(* The weights effect of the calculator (App.tsx): strategyTokenWeights is *)
(* the strategies state, options and calculationType are the config, and   *)
(* wmResult is the weights state the effect sets.                          *)
(***************************************************************************)
\* a filter that lets every strategy through
StrategiesWithTokens_Unfiltered(strategies) == strategies

\* strategies.filter(strategy => strategy.tokens && Object.keys(strategy.tokens).length > 0)
StrategiesWithTokens(strategies) ==
  SelectSeq(strategies, LAMBDA strategy : DOMAIN strategy.tokens # {})

\* the three early returns of the effect
SkipsEngine(strategies, coefficients) ==
  \/ Len(strategies) = 0
  \/ Len(coefficients) = 0
  \/ Len(StrategiesWithTokens(strategies)) = 0

\* the strategies state is an array and the config has its coefficients array
InitWeightsEffect ==
  /\ InitWeightedMean
  /\ strategyTokenWeights.defined
  /\ options.defined
  /\ options.hasCoefficients

\* the effect body: setWeights(new Map()) and return, or the engine call in
\* try/catch and setWeights of its result
RunWeightsEffect ==
  /\ wmCall = "none"
  /\ wmCall' = "effect"
  /\ IF SkipsEngine(strategyTokenWeights.items, options.coefficients)
     THEN /\ wmResult' = Returned(EmptyMap)
          /\ enginePassed' = NotInvoked
     ELSE /\ enginePassed' =
               [invoked |-> TRUE, items |-> StrategiesWithTokens(strategyTokenWeights.items)]
          /\ wmResult' =
               LET newWeights ==
                     calculateStrategyWeights(
                       [defined |-> TRUE,
                        items |-> StrategiesWithTokens(strategyTokenWeights.items)],
                       options, calculationType)
               IN IF newWeights.threw THEN Returned(EmptyMap) ELSE newWeights
  /\ UNCHANGED <<strategyTokenWeights, options, calculationType, wmBefore, wmRaised, wmToken,
                 pwVars, syncVars, fetchVars, delegatedVars, listVars, sdkVars, coefficientVars>>

NextWeightsEffect == RunWeightsEffect

SpecWeightsEffect == InitWeightsEffect /\ [][NextWeightsEffect]_vars

\* no strategy of the strategies state has a non-empty tokens map
NoStrategyHasTokens ==
  \A i \in 1..Len(Items) : DOMAIN Items[i].tokens = {}

\* C25: after the weights effect has run, weights is the empty map and the
\* engine was not invoked whenever strategies is empty, the coefficients are
\* empty or no strategy has a non-empty tokens map; and no strategy without
\* tokens is passed to the engine.
C25_EffectGuardsTheEngine ==
  wmCall = "effect" =>
    /\ (Len(Items) = 0 \/ Len(options.coefficients) = 0 \/ NoStrategyHasTokens)
         => (wmResult = Returned(EmptyMap) /\ ~enginePassed.invoked)
    /\ \A i \in 1..Len(enginePassed.items) : DOMAIN enginePassed.items[i].tokens # {}

\* the effect passed one of two strategies to the engine, the other having
\* no tokens
C25_Witness ==
  /\ wmCall = "effect"
  /\ Len(Items) = 2
  /\ enginePassed.invoked
  /\ Len(enginePassed.items) = 1
  /\ wmResult.map # EmptyMap

(***************************************************************************)
(* handleSimulationDelegatedBalanceChange (App.tsx).                       *)
(***************************************************************************)
\* BigInt.prototype.toString of a non-negative value
BigIntToStringF[n \in Nat] ==
  IF n < 10 THEN DigitStrings[n + 1]
  ELSE BigIntToStringF[n \div 10] \o DigitStrings[(n % 10) + 1]

BigIntToString(n) == BigIntToStringF[n]

\* updatedBalances.reduce((sum, b) => sum + BigInt(b.delegation || "0"), BigInt(0))
TotalBalanceF[updatedBalances \in Seq([strategyId : STRING, delegation : STRING]), i \in Nat] ==
  IF i = 0 THEN 0
  ELSE TotalBalanceF[updatedBalances, i - 1] + BigInt(updatedBalances[i].delegation)

TotalBalance(updatedBalances) == TotalBalanceF[updatedBalances, Len(updatedBalances)]

\* updatedBalances.findIndex(b => b.strategyId === strategyId), 0 for -1
FindBalanceIndex(balances, strategyId) ==
  IF \E k \in 1..Len(balances) : balances[k].strategyId = strategyId
  THEN CHOOSE k \in 1..Len(balances) :
         /\ balances[k].strategyId = strategyId
         /\ \A j \in 1..(k - 1) : balances[j].strategyId # strategyId
  ELSE 0

\* an update that appends an entry whether the strategy has one or not
UpdatedBalances_AlwaysPush(balances, strategyId, newBalance) ==
  Append(balances, [strategyId |-> strategyId, delegation |-> newBalance])

\* the copy of prev.bAppTotalDelegatedBalances with the entry of the strategy
\* replaced, or appended when there is none
UpdatedBalances(balances, strategyId, newBalance) ==
  IF FindBalanceIndex(balances, strategyId) > 0
  THEN [balances EXCEPT ![FindBalanceIndex(balances, strategyId)].delegation = newBalance]
  ELSE Append(balances, [strategyId |-> strategyId, delegation |-> newBalance])

\* the updater passed to setSimulationDelegatedBalances
DelegatedBalancesAfter(prev, strategyId, newBalance) ==
  IF ~prev.hasList
  THEN [hasList |-> TRUE,
        bAppTotalDelegatedBalance |-> newBalance,
        bAppTotalDelegatedBalances |-> <<[strategyId |-> strategyId, delegation |-> newBalance]>>]
  ELSE [hasList |-> TRUE,
        bAppTotalDelegatedBalance |->
          BigIntToString(TotalBalance(
            UpdatedBalances(prev.bAppTotalDelegatedBalances, strategyId, newBalance))),
        bAppTotalDelegatedBalances |->
          UpdatedBalances(prev.bAppTotalDelegatedBalances, strategyId, newBalance)]

\* the strategy ids StrategyList passes: (strategy.id || strategy.strategy)?.toString()
DelegatedStrategyIds == {"1", "2", "S1"}

\* the balances StrategyList passes: "0" and parseEther(...).toString()
NewBalances == {"0", "400", "600"}

\* what getDelegatedBalances resolved to before the first change: null (also
\* after an error) or the balances of the bApp
FetchedDelegatedBalances ==
  { NoDelegatedBalances,
    [hasList |-> TRUE, bAppTotalDelegatedBalance |-> "0", bAppTotalDelegatedBalances |-> <<>>],
    [hasList |-> TRUE, bAppTotalDelegatedBalance |-> "1000",
     bAppTotalDelegatedBalances |->
       <<[strategyId |-> "1", delegation |-> "400"],
         [strategyId |-> "2", delegation |-> "600"]>>] }

InitDelegated ==
  /\ EnginesIdle
  /\ SyncIdle
  /\ FetchIdle
  /\ enginePassed = NotInvoked
  /\ simulationDelegatedBalances \in FetchedDelegatedBalances
  /\ simulationEditedDelegatedBalances = EmptyMap
  /\ simulationDataEdited = FALSE
  /\ delegatedBefore = NoDelegatedBalances
  /\ delegatedChange = [strategyId |-> "", newBalance |-> ""]
  /\ delegatedChanges = 0
  /\ ListIdle
  /\ SdkIdle
  /\ CoefficientsIdle

handleSimulationDelegatedBalanceChange ==
  /\ delegatedChanges < MaxDelegatedChanges
  /\ \E strategyId \in DelegatedStrategyIds : \E newBalance \in NewBalances :
       /\ simulationEditedDelegatedBalances' =
            MapSet(simulationEditedDelegatedBalances, strategyId, newBalance)
       /\ simulationDelegatedBalances' =
            DelegatedBalancesAfter(simulationDelegatedBalances, strategyId, newBalance)
       /\ delegatedChange' = [strategyId |-> strategyId, newBalance |-> newBalance]
  /\ simulationDataEdited' = TRUE
  /\ delegatedBefore' = simulationDelegatedBalances
  /\ delegatedChanges' = delegatedChanges + 1
  /\ UNCHANGED <<wmVars, pwVars, syncVars, fetchVars, effectVars, listVars, sdkVars,
               coefficientVars>>

NextDelegated == handleSimulationDelegatedBalanceChange

SpecDelegated == InitDelegated /\ [][NextDelegated]_vars

\* C26: after any sequence of changes, bAppTotalDelegatedBalance is the sum of
\* the delegations of the list, the list has at most one entry per strategyId,
\* the entry of the changed strategy holds the new balance, and every other
\* entry is as it was before the change and in its place.
C26_DelegatedBalancesConsistent ==
  delegatedChanges > 0 =>
    LET after == simulationDelegatedBalances.bAppTotalDelegatedBalances
        before == delegatedBefore.bAppTotalDelegatedBalances
    IN /\ simulationDelegatedBalances.bAppTotalDelegatedBalance
            = BigIntToString(TotalBalance(after))
       /\ \A j, k \in 1..Len(after) : after[j].strategyId = after[k].strategyId => j = k
       /\ \E k \in 1..Len(after) :
            after[k] = [strategyId |-> delegatedChange.strategyId,
                        delegation |-> delegatedChange.newBalance]
       /\ Len(after) <= Len(before) + 1
       /\ \A k \in 1..Len(before) :
            before[k].strategyId # delegatedChange.strategyId
              => (k <= Len(after) /\ after[k] = before[k])

\* the balance of a strategy that has an entry was changed, next to the entry
\* of another strategy, and the total is that of both
C26_Witness ==
  /\ delegatedChanges = 2
  /\ Len(simulationDelegatedBalances.bAppTotalDelegatedBalances) = 2
  /\ Len(delegatedBefore.bAppTotalDelegatedBalances) = 2
  /\ delegatedChange.newBalance = "400"
  /\ simulationDelegatedBalances.bAppTotalDelegatedBalance = "800"

(***************************************************************************)
(* StrategyList (StrategyList.tsx): the rows of a strategy, the            *)
(* remove-token button and the deposit input.  Indexes are zero-based as   *)
(* in the source; a token that is missing is "".                           *)
(***************************************************************************)
\* the filter in front of tokensToRender
RowShown(tw, relevantTokens) ==
  /\ Truthy(tw.token)
  /\ (relevantTokens = {} \/ toLowerCase(tw.token) \in relevantTokens)

FilteredTokens(tokenWeights, relevantTokens) ==
  SelectSeq(tokenWeights, LAMBDA tw : RowShown(tw, relevantTokens))

\* filteredTokens.length > 0 ? filteredTokens : [{ token: null, weight: 0, depositAmount: "0" }]
TokensToRender(tokenWeights, relevantTokens) ==
  IF Len(FilteredTokens(tokenWeights, relevantTokens)) > 0
  THEN FilteredTokens(tokenWeights, relevantTokens)
  ELSE <<[token |-> "", depositAmount |-> "0"]>>

\* array.splice(start, 1): nothing is removed when start is past the end
SpliceOne(array, start) ==
  [k \in 1..(IF start < Len(array) THEN Len(array) - 1 ELSE Len(array)) |->
     IF k <= start THEN array[k] ELSE array[k + 1]]

\* strategies after handleRemoveToken(strategyIndex, tokenIndex)
AfterRemoveToken(strategies, strategyIndex, tokenIndex) ==
  [strategies EXCEPT ![strategyIndex + 1].tokenWeights = SpliceOne(@, tokenIndex)]

\* `${strategy.id || strategy.strategy}-${tokenIndex}-${tokenWeight.token}`
InputKey(strategy, tokenIndex, tokenWeight) ==
  strategy.id \o "-" \o DigitStrings[tokenIndex + 1] \o "-" \o tokenWeight.token

\* the object editingValues without a key
MapDelete(m, key) == SelectSeq(m, LAMBDA e : e.key # key)

\* strategies[sIdx].tokenWeights.findIndex(tw =>
\*   tw.token?.toLowerCase() === tokenWeight.token?.toLowerCase()), -1 when none
ActualTokenIndex(tokenWeights, tokenWeight) ==
  IF \E k \in 1..Len(tokenWeights) :
       toLowerCase(tokenWeights[k].token) = toLowerCase(tokenWeight.token)
  THEN (CHOOSE k \in 1..Len(tokenWeights) :
          /\ toLowerCase(tokenWeights[k].token) = toLowerCase(tokenWeight.token)
          /\ \A j \in 1..(k - 1) :
               toLowerCase(tokenWeights[j].token) # toLowerCase(tokenWeight.token)) - 1
  ELSE -1

\* the texts a deposit input can hold when it loses focus
InputTexts == {"", "1", "0.5", "-1", "1e3", "abc"}

\* Number(valueString)
NumberOfText(valueString) ==
  CASE valueString = "" -> Zero
    [] valueString = "1" -> One
    [] valueString = "0.5" -> Fin(1, 2)
    [] valueString = "-1" -> Int2Num(-1)
    [] valueString = "1e3" -> Int2Num(1000)
    [] OTHER -> NaN

\* viem's parseEther accepts an optional sign, digits, an optional point and digits
ParseEtherThrows(valueString) == valueString \notin {"", "1", "0.5", "-1"}

\* parseEther(valueString).toString()
ParseEtherToString(valueString) ==
  CASE valueString = "1" -> "1000000000000000000"
    [] valueString = "0.5" -> "500000000000000000"
    [] valueString = "-1" -> "-1000000000000000000"
    [] OTHER -> "0"

\* the depositAmount the onBlur handler passes to handleUpdateTokenWeight
DepositOnBlur(valueString) ==
  IF valueString = "" THEN "0"
  ELSE IF ~IsNaN(NumberOfText(valueString)) /\ ~NumLess(NumberOfText(valueString), Zero)
       THEN IF ParseEtherThrows(valueString) THEN "0" ELSE ParseEtherToString(valueString)
       ELSE "0"

\* strategies after handleUpdateTokenWeight(strategyIndex, tokenIndex, 'depositAmount', value)
AfterUpdateTokenWeight(strategies, strategyIndex, tokenIndex, value) ==
  [strategies EXCEPT ![strategyIndex + 1].tokenWeights[tokenIndex + 1].depositAmount = value]

\* strategies after the onBlur handler of the deposit input of a row
AfterBlur(strategies, sIdx, tokenWeight, valueString) ==
  IF ActualTokenIndex(strategies[sIdx + 1].tokenWeights, tokenWeight) = -1
  THEN strategies
  ELSE AfterUpdateTokenWeight(strategies, sIdx,
         ActualTokenIndex(strategies[sIdx + 1].tokenWeights, tokenWeight),
         DepositOnBlur(valueString))

ListTokens == {"0xa", "0xA", "0xb", ""}

ListDeposits == {"0", "400", "600"}

ListTokenWeights == [token : ListTokens, depositAmount : ListDeposits]

SampleTokenWeightLists ==
  UNION { [1..n -> ListTokenWeights] : n \in 0..MaxTokenWeights }

\* the tokens extractRelevantTokens collects are in lower case
RelevantTokenSets == SUBSET {"0xa", "0xb"}

OtherListStrategy ==
  [id |-> "S2",
   tokenWeights |-> <<[token |-> "0xa", depositAmount |-> "400"],
                      [token |-> "0xb", depositAmount |-> "600"]>>]

InitStrategyList ==
  /\ EnginesIdle
  /\ SyncIdle
  /\ FetchIdle
  /\ enginePassed = NotInvoked
  /\ DelegatedIdle
  /\ SdkIdle
  /\ CoefficientsIdle
  /\ \E tokenWeights \in SampleTokenWeightLists :
       /\ \A j, k \in 1..Len(tokenWeights) :
            tokenWeights[j].depositAmount = tokenWeights[k].depositAmount => j = k
       /\ listStrategies = <<[id |-> "S1", tokenWeights |-> tokenWeights], OtherListStrategy>>
  /\ listRelevantTokens \in RelevantTokenSets
  /\ editingValues = EmptyMap
  /\ listPhase = "rendered"
  /\ listBefore = <<>>
  /\ listEvent = NoListEvent

\* the rendered rows that hold a token: their strategy index and row index
TokenRows ==
  { <<sIdx, tokenIndex>> \in (0..(Len(listStrategies) - 1)) \X (0..MaxTokenWeights) :
      /\ tokenIndex < Len(TokensToRender(listStrategies[sIdx + 1].tokenWeights, listRelevantTokens))
      /\ Truthy(TokensToRender(listStrategies[sIdx + 1].tokenWeights,
                               listRelevantTokens)[tokenIndex + 1].token) }

RowOf(sIdx, tokenIndex) ==
  TokensToRender(listStrategies[sIdx + 1].tokenWeights, listRelevantTokens)[tokenIndex + 1]

\* the remove-token button, which only rows after the first one have
ClickRemoveToken ==
  /\ listPhase = "rendered"
  /\ \E row \in TokenRows :
       /\ row[2] # 0
       /\ listStrategies' = AfterRemoveToken(listStrategies, row[1], row[2])
       /\ listEvent' = [kind |-> "remove", sIdx |-> row[1], tokenIndex |-> row[2], text |-> ""]
  /\ listBefore' = listStrategies
  /\ listPhase' = "handled"
  /\ UNCHANGED <<listRelevantTokens, editingValues>>
  /\ UNCHANGED <<wmVars, pwVars, syncVars, fetchVars, effectVars, delegatedVars, sdkVars,
                 coefficientVars>>

\* onChange of a deposit input
ChangeDepositInput ==
  /\ listPhase = "rendered"
  /\ \E row \in TokenRows : \E valueString \in InputTexts :
       /\ editingValues' =
            MapSet(editingValues,
                   InputKey(listStrategies[row[1] + 1], row[2], RowOf(row[1], row[2])),
                   valueString)
       /\ listEvent' = [kind |-> "change", sIdx |-> row[1], tokenIndex |-> row[2],
                        text |-> valueString]
  /\ listPhase' = "typing"
  /\ UNCHANGED <<listStrategies, listRelevantTokens, listBefore>>
  /\ UNCHANGED <<wmVars, pwVars, syncVars, fetchVars, effectVars, delegatedVars, sdkVars,
                 coefficientVars>>

\* onBlur of a deposit input: of the one being typed in, with its text, or of
\* one that was only focused
BlurDepositInput ==
  /\ listPhase \in {"rendered", "typing"}
  /\ \E row \in TokenRows : \E valueString \in InputTexts :
       /\ listPhase = "typing" =>
            /\ row = <<listEvent.sIdx, listEvent.tokenIndex>>
            /\ valueString = listEvent.text
       /\ editingValues' =
            MapDelete(editingValues,
                      InputKey(listStrategies[row[1] + 1], row[2], RowOf(row[1], row[2])))
       /\ listStrategies' =
            AfterBlur(listStrategies, row[1], RowOf(row[1], row[2]), valueString)
       /\ listEvent' = [kind |-> "blur", sIdx |-> row[1], tokenIndex |-> row[2],
                        text |-> valueString]
  /\ listBefore' = listStrategies
  /\ listPhase' = "handled"
  /\ UNCHANGED listRelevantTokens
  /\ UNCHANGED <<wmVars, pwVars, syncVars, fetchVars, effectVars, delegatedVars, sdkVars,
                 coefficientVars>>

NextStrategyList == ClickRemoveToken \/ ChangeDepositInput \/ BlurDepositInput

SpecStrategyList == InitStrategyList /\ [][NextStrategyList]_vars

\* the positions in tokenWeights of the rendered rows, in row order
ShownPositionsF[tokenWeights \in Seq(ListTokenWeights), relevantTokens \in RelevantTokenSets, i \in Nat] ==
  IF i = 0 THEN <<>>
  ELSE IF RowShown(tokenWeights[i], relevantTokens)
       THEN Append(ShownPositionsF[tokenWeights, relevantTokens, i - 1], i)
       ELSE ShownPositionsF[tokenWeights, relevantTokens, i - 1]

\* the position in tokenWeights, before the event, of the entry the row of the
\* event showed
EventPosition ==
  ShownPositionsF[listBefore[listEvent.sIdx + 1].tokenWeights, listRelevantTokens,
                  Len(listBefore[listEvent.sIdx + 1].tokenWeights)][listEvent.tokenIndex + 1]

\* C27: clicking the remove-token button of a row removes from the strategy's
\* tokenWeights exactly the entry shown in that row and no other, whatever the
\* relevantTokens filter hides and also when a token is listed twice.
C27_RemovesTheEntryShown ==
  listEvent.kind = "remove" =>
    listStrategies =
      [listBefore EXCEPT ![listEvent.sIdx + 1].tokenWeights =
         [k \in 1..(Len(@) - 1) |-> IF k < EventPosition THEN @[k] ELSE @[k + 1]]]

NonNegativeIntegerStrings == {"0", "400", "600", "500000000000000000", "1000000000000000000"}

\* C28: after a deposit input loses focus with any text, the depositAmount of
\* the entry the input shows is a non-negative base-10 integer string ("0" for
\* empty, negative or unparsable text, otherwise the wei value of the text), and
\* editingValues has no entry for that input.
C28_BlurNormalisesTheDeposit ==
  listEvent.kind = "blur" =>
    /\ listStrategies[listEvent.sIdx + 1].tokenWeights[EventPosition].depositAmount
         \in NonNegativeIntegerStrings
    /\ listStrategies[listEvent.sIdx + 1].tokenWeights[EventPosition].depositAmount
         = CASE listEvent.text = "1" -> "1000000000000000000"
             [] listEvent.text = "0.5" -> "500000000000000000"
             [] OTHER -> "0"
    /\ ~MapHas(editingValues,
               InputKey(listBefore[listEvent.sIdx + 1], listEvent.tokenIndex,
                        listBefore[listEvent.sIdx + 1].tokenWeights[EventPosition]))

(***************************************************************************)
(* createMockableSDK (sdk.ts): the interceptor put in front of the         *)
(* subgraph client's request method when simulation data is supplied.      *)
(* A query is known by the substrings its text contains.                   *)
(***************************************************************************)
QueryMarkers ==
  {"getParticipantWeightInput", "ParticipantWeightInput", "getBappMetadata", "BappMetadata",
   "bApp", "Bapp", "GetAllStrategiesForBapp", "GetBAppDelegators",
   "GetTotalDelegatedPercentageForAccount"}

\* a text that contains a marker contains the markers inside that marker
MarkersClosed(contains) ==
  /\ "getParticipantWeightInput" \in contains => "ParticipantWeightInput" \in contains
  /\ "getBappMetadata" \in contains => "BappMetadata" \in contains
  /\ "BappMetadata" \in contains => "Bapp" \in contains
  /\ "GetAllStrategiesForBapp" \in contains => "Bapp" \in contains

\* the queries: a string, an object that JSON.stringify turns into a text, or
\* a value JSON.stringify gives undefined for
Queries ==
  { [isString |-> isString, serialisable |-> TRUE, contains |-> contains] :
      isString \in BOOLEAN, contains \in { c \in SUBSET QueryMarkers : MarkersClosed(c) } }
    \cup { [isString |-> FALSE, serialisable |-> FALSE, contains |-> {}] }

\* queryStr.includes(marker); for a string query, query.includes(marker) is the same
Includes(query, marker) == marker \in query.contains

isParticipantWeightQuery(query) ==
  \/ /\ query.isString
     /\ (Includes(query, "getParticipantWeightInput") \/ Includes(query, "ParticipantWeightInput"))
  \/ (Includes(query, "getParticipantWeightInput") \/ Includes(query, "ParticipantWeightInput"))

isBAppMetadataQuery(query) ==
  \/ /\ query.isString
     /\ (Includes(query, "getBappMetadata") \/ Includes(query, "BappMetadata"))
  \/ (Includes(query, "getBappMetadata") \/ Includes(query, "BappMetadata"))

isOtherBAppQuery(query) ==
  \/ /\ query.isString
     /\ (Includes(query, "bApp") \/ Includes(query, "Bapp"))
  \/ (Includes(query, "bApp") \/ Includes(query, "Bapp"))
  \/ Includes(query, "GetAllStrategiesForBapp")
  \/ Includes(query, "GetBAppDelegators")
  \/ Includes(query, "GetTotalDelegatedPercentageForAccount")

SdkTokenWeightT == [token : STRING, depositAmount : STRING]

SdkStrategyT == [id : STRING, tokenWeights : Seq(SdkTokenWeightT)]

\* the lower-cased tokens of the entries that have one, over the first i entries
LowerTokensF[tokenWeights \in Seq(SdkTokenWeightT), i \in Nat] ==
  IF i = 0 THEN <<>>
  ELSE IF Truthy(tokenWeights[i].token)
       THEN Append(LowerTokensF[tokenWeights, i - 1], toLowerCase(tokenWeights[i].token))
       ELSE LowerTokensF[tokenWeights, i - 1]

AllLowerTokensF[strategies \in Seq(SdkStrategyT), i \in Nat] ==
  IF i = 0 THEN <<>>
  ELSE AllLowerTokensF[strategies, i - 1]
         \o LowerTokensF[strategies[i].tokenWeights, Len(strategies[i].tokenWeights)]

\* allTokens = Array.from(uniqueTokens)
AllTokens(strategies) ==
  ArrayFromSetF[AllLowerTokensF[strategies, Len(strategies)],
                Len(AllLowerTokensF[strategies, Len(strategies)])]

\* tw && tw.depositAmount ? tw.depositAmount : "0", tw the first entry of the token
ObligatedBalance(strategy, token) ==
  IF FindTokenWeight(strategy, token) = 0 THEN "0"
  ELSE IF Truthy(strategy.tokenWeights[FindTokenWeight(strategy, token)].depositAmount)
       THEN strategy.tokenWeights[FindTokenWeight(strategy, token)].depositAmount
       ELSE "0"

\* tokenTotals.get(token) after the first i strategies
TokenTotalF[strategies \in Seq(SdkStrategyT), token \in STRING, i \in Nat] ==
  IF i = 0 THEN 0
  ELSE TokenTotalF[strategies, token, i - 1] + BigInt(ObligatedBalance(strategies[i], token))

TokenTotal(strategies, token) == TokenTotalF[strategies, token, Len(strategies)]

\* ((BigInt(obligatedBalance) * 10000n) / totalObligatedBalance).toString(), or "0"
Percentage(strategies, strategy, token) ==
  IF TokenTotal(strategies, token) > 0
  THEN BigIntToString((BigInt(ObligatedBalance(strategy, token)) * 10000)
                        \div TokenTotal(strategies, token))
  ELSE "0"

\* the mock of the subgraph's answer; owners are what getStrategyOwner resolved to
transformSimulationToSubgraphResponse(strategies, bAppId, owners) ==
  [bapp |->
     [bAppTokens |->
        [t \in 1..Len(AllTokens(strategies)) |->
           [token |-> AllTokens(strategies)[t],
            sharedRiskLevel |-> "1000000",
            totalObligatedBalance |->
              BigIntToString(TokenTotal(strategies,
                                        AllTokens(strategies)[t]))]],
      id |-> bAppId,
      strategies |->
        [i \in 1..Len(strategies) |->
           [obligations |->
              [t \in 1..Len(AllTokens(strategies)) |->
                 [obligatedBalance |->
                    ObligatedBalance(strategies[i], AllTokens(strategies)[t]),
                  token |-> AllTokens(strategies)[t],
                  percentage |->
                    Percentage(strategies, strategies[i],
                               AllTokens(strategies)[t])]],
            strategy |->
              [id |-> strategies[i].id,
               owner |-> owners[i],
               balances |->
                 [t \in 1..Len(AllTokens(strategies)) |->
                    [token |-> AllTokens(strategies)[t],
                     riskValue |->
                       Percentage(strategies, strategies[i],
                                  AllTokens(strategies)[t])]]]]]]]

\* what getStrategyOwner resolves to: the owner, or the fallback address
Owners == {"0x0000000000000000000000000000000000000000", "0xowner"}

\* how the original request method settles: it resolves, or rejects with an
\* Error whose message has one of the words looked for, or with another error
OriginalOutcomes == {"resolved", "rejected: bApp not found", "rejected: other"}

\* the catch around the original request
AfterOriginalRequest(query, data, outcome) ==
  CASE outcome = "resolved" -> [kind |-> "original"]
    [] outcome = "rejected: bApp not found" ->
         IF Includes(query, "GetAllStrategiesForBapp")
         THEN [kind |-> "fallback", body |-> [i \in 1..Len(data.strategies) |-> data.strategies[i].id]]
         ELSE IF Includes(query, "GetBAppDelegators")
         THEN [kind |-> "fallback", body |-> <<>>]
         ELSE IF Includes(query, "GetTotalDelegatedPercentageForAccount")
         THEN [kind |-> "fallback", body |-> [percentage |-> "0"]]
         ELSE [kind |-> "fallback",
               body |-> [id |-> data.bAppId, bAppTokens |-> <<>>, strategies |-> <<>>]]
    [] OTHER -> [kind |-> "rejected"]

\* an interceptor that looks for the bApp patterns before the participant one
InterceptedResponse_BAppFirst(query, data, owners, outcome) ==
  IF ~query.serialisable THEN [kind |-> "rejected"]
  ELSE IF isBAppMetadataQuery(query)
  THEN [kind |-> "metadata",
        body |-> [id |-> data.bAppId, metadataUri |-> "https://example.com/metadata"]]
  ELSE IF isOtherBAppQuery(query)
  THEN [kind |-> "generic", body |-> [id |-> data.bAppId]]
  ELSE IF isParticipantWeightQuery(query)
  THEN [kind |-> "participantWeights",
        body |-> transformSimulationToSubgraphResponse(data.strategies, data.bAppId, owners)]
  ELSE AfterOriginalRequest(query, data, outcome)

\* what the intercepted request settles with; a query without a text makes
\* queryStr.includes raise
InterceptedResponse(query, data, owners, outcome) ==
  IF ~query.serialisable THEN [kind |-> "rejected"]
  ELSE IF isParticipantWeightQuery(query)
  THEN [kind |-> "participantWeights",
        body |-> transformSimulationToSubgraphResponse(data.strategies, data.bAppId, owners)]
  ELSE IF isBAppMetadataQuery(query)
  THEN [kind |-> "metadata",
        body |-> [id |-> data.bAppId, metadataUri |-> "https://example.com/metadata"]]
  ELSE IF isOtherBAppQuery(query)
  THEN [kind |-> "generic", body |-> [id |-> data.bAppId]]
  ELSE AfterOriginalRequest(query, data, outcome)

\* whether the request reaches originalRequest.call
CallsOriginal(query) ==
  /\ query.serialisable
  /\ ~isParticipantWeightQuery(query)
  /\ ~isBAppMetadataQuery(query)
  /\ ~isOtherBAppQuery(query)

SdkTokenWeight(token, depositAmount) == [token |-> token, depositAmount |-> depositAmount]

\* the simulation strategies getParticipantWeights passes on: deposits are
\* the wei strings the editor and the fetch write
SdkSimulationStrategies ==
  { <<>>,
    <<[id |-> "1", tokenWeights |-> <<SdkTokenWeight("0xa", "400")>>]>>,
    <<[id |-> "1", tokenWeights |-> <<SdkTokenWeight("0xA", "400"), SdkTokenWeight("0xb", "0")>>],
      [id |-> "2", tokenWeights |-> <<SdkTokenWeight("0xa", "600"), SdkTokenWeight("", "0")>>]>>,
    <<[id |-> "S1", tokenWeights |-> <<>>],
      [id |-> "2", tokenWeights |-> <<SdkTokenWeight("0xb", "600"), SdkTokenWeight("0xB", "400")>>]>> }

InitSdk ==
  /\ EnginesIdle
  /\ SyncIdle
  /\ FetchIdle
  /\ enginePassed = NotInvoked
  /\ DelegatedIdle
  /\ ListIdle
  /\ CoefficientsIdle
  /\ \E strategies \in SdkSimulationStrategies : \E bAppId \in BAppIds :
       sdkSimulationData = [strategies |-> strategies, bAppId |-> bAppId]
  /\ sdkQuery = NoQuery
  /\ sdkResponse = NoResponse
  /\ sdkOriginalCalled = FALSE

\* one call of the intercepted client.request, to its settlement; the
\* interceptor keeps no state between calls, so the first call of a client
\* stands for each of them
InterceptedRequest ==
  /\ sdkResponse = NoResponse
  /\ \E query \in Queries : \E outcome \in OriginalOutcomes :
       \E owners \in [1..Len(sdkSimulationData.strategies) -> Owners] :
         /\ sdkQuery' = query
         /\ sdkResponse' = InterceptedResponse(query, sdkSimulationData, owners, outcome)
         /\ sdkOriginalCalled' = CallsOriginal(query)
  /\ UNCHANGED sdkSimulationData
  /\ UNCHANGED <<wmVars, pwVars, syncVars, fetchVars, effectVars, delegatedVars, listVars,
                 coefficientVars>>

NextSdk == InterceptedRequest

SpecSdk == InitSdk /\ [][NextSdk]_vars

TextHasAny(markers) == sdkQuery.serialisable /\ sdkQuery.contains \cap markers # {}

ParticipantPattern == {"getParticipantWeightInput", "ParticipantWeightInput"}

MetadataPattern == {"getBappMetadata", "BappMetadata"}

OtherBAppPattern ==
  {"bApp", "Bapp", "GetAllStrategiesForBapp", "GetBAppDelegators",
   "GetTotalDelegatedPercentageForAccount"}

\* C29: with simulation data supplied, every query whose text contains
\* 'getParticipantWeightInput' or 'ParticipantWeightInput' is answered from the
\* simulation strategies; only queries that match none of the participant,
\* metadata and other-bApp patterns reach the original request method; and the
\* first matching pattern, in that order, decides the response.
C29_FirstMatchingPatternAnswers ==
  sdkQuery # NoQuery =>
    /\ TextHasAny(ParticipantPattern) =>
         /\ sdkResponse.kind = "participantWeights"
         /\ sdkResponse.body.bapp.id = sdkSimulationData.bAppId
         /\ Len(sdkResponse.body.bapp.strategies) = Len(sdkSimulationData.strategies)
         /\ \A i \in 1..Len(sdkSimulationData.strategies) :
              /\ sdkResponse.body.bapp.strategies[i].strategy.id
                   = sdkSimulationData.strategies[i].id
              /\ \A o \in Range(sdkResponse.body.bapp.strategies[i].obligations) :
                   \/ o.obligatedBalance = "0"
                   \/ \E tw \in Range(sdkSimulationData.strategies[i].tokenWeights) :
                        /\ toLowerCase(tw.token) = o.token
                        /\ tw.depositAmount = o.obligatedBalance
         /\ \A tw \in UNION { Range(st.tokenWeights) : st \in Range(sdkSimulationData.strategies) } :
              Truthy(tw.token) =>
                \E b \in Range(sdkResponse.body.bapp.bAppTokens) : b.token = toLowerCase(tw.token)
    /\ sdkOriginalCalled =>
         ~TextHasAny(ParticipantPattern \cup MetadataPattern \cup OtherBAppPattern)
    /\ (~TextHasAny(ParticipantPattern) /\ TextHasAny(MetadataPattern)) =>
         /\ sdkResponse.kind = "metadata"
         /\ sdkResponse.body.id = sdkSimulationData.bAppId
    /\ (~TextHasAny(ParticipantPattern \cup MetadataPattern) /\ TextHasAny(OtherBAppPattern)) =>
         /\ sdkResponse.kind = "generic"
         /\ sdkResponse.body.id = sdkSimulationData.bAppId

\* a query that matches all three patterns was answered from two simulation
\* strategies
C29_Witness ==
  /\ sdkQuery.contains = QueryMarkers
  /\ sdkResponse.kind = "participantWeights"
  /\ Len(sdkResponse.body.bapp.strategies) = 2
  /\ ~sdkOriginalCalled

(***************************************************************************)
(* ensureAllTokensInStrategies and the token coefficient effect (App.tsx). *)
(***************************************************************************)
\* new Set(strategy.tokenWeights.map(tw => tw.token.toLowerCase()))
ExistingTokens(strategy) == { toLowerCase(tw.token) : tw \in Range(strategy.tokenWeights) }

\* every coefficient counted as missing, whatever the strategy holds
MissingTokens_All(strategy, coefficients) == coefficients

\* tokenCoefficients.filter(coeff => !existingTokens.has(coeff.token.toLowerCase()))
MissingTokens(strategy, coefficients) ==
  SelectSeq(coefficients, LAMBDA coeff : toLowerCase(coeff.token) \notin ExistingTokens(strategy))

\* missingTokens.map(coeff => ({ token: coeff.token, weight: 0, depositAmount: "0" }))
AdditionalTokenWeights(strategy, coefficients) ==
  [k \in 1..Len(MissingTokens(strategy, coefficients)) |->
     TokenWeight(MissingTokens(strategy, coefficients)[k].token, 0, "0")]

ensureAllTokensInStrategies(strategies, coefficients) ==
  [i \in 1..Len(strategies) |->
     [strategies[i] EXCEPT
        !.tokenWeights = @ \o AdditionalTokenWeights(strategies[i], coefficients)]]

\* updatedStrategies.some((strategy, idx) =>
\*   strategy.tokenWeights.length > simulationStrategies[idx]?.tokenWeights.length)
hasNewTokens(updatedStrategies, strategies) ==
  \E idx \in 1..Len(updatedStrategies) :
    Len(updatedStrategies[idx].tokenWeights) > Len(strategies[idx].tokenWeights)

AppStrategy(id, tokenWeights) == [id |-> id, tokenWeights |-> tokenWeights]

\* the simulation strategies the fetch and the editor leave
AppStrategyLists ==
  { <<>>,
    <<AppStrategy("1", <<>>)>>,
    <<AppStrategy("1", <<TokenWeight("0xa", 0, "400")>>),
      AppStrategy("2", <<TokenWeight("0xA", 0, "600"), TokenWeight("0xb", 0, "0")>>)>>,
    <<AppStrategy("1", <<TokenWeight("0xb", 0, "600")>>),
      AppStrategy("S1", <<>>),
      AppStrategy("2", <<TokenWeight("0xa", 0, "0"), TokenWeight("0xa", 0, "400")>>)>> }

\* the coefficient lists the config panel can hold: a token can be listed
\* twice, also in another letter case
AppCoefficientLists ==
  SeqsUpTo({ Coeff(token, 5) : token \in {"0xa", "0xA", "0xb"} }, 2)

InitCoefficients ==
  /\ EnginesIdle
  /\ SyncIdle
  /\ FetchIdle
  /\ enginePassed = NotInvoked
  /\ DelegatedIdle
  /\ ListIdle
  /\ SdkIdle
  /\ appSimulationStrategies \in AppStrategyLists
  /\ appTokenCoefficients = <<>>
  /\ coefficientsVersion = 0
  /\ seenCoefficientsVersion = 0
  /\ coefficientUpdates = 0
  /\ coefficientEvent = "none"
  /\ strategiesBeforeEffect = <<>>

notCoefficientVars ==
  <<wmVars, pwVars, syncVars, fetchVars, effectVars, delegatedVars, listVars, sdkVars>>

\* setSimulationConfig with another tokenCoefficients array
ChangeTokenCoefficients ==
  /\ coefficientsVersion < MaxCoefficientChanges
  /\ appTokenCoefficients' \in AppCoefficientLists
  /\ coefficientsVersion' = coefficientsVersion + 1
  /\ coefficientUpdates' = 0
  /\ coefficientEvent' = "change"
  /\ UNCHANGED <<appSimulationStrategies, seenCoefficientsVersion, strategiesBeforeEffect>>
  /\ UNCHANGED notCoefficientVars

\* a render after the tokenCoefficients changed: the effect runs with the
\* render's simulationStrategies
RunCoefficientEffect ==
  /\ seenCoefficientsVersion # coefficientsVersion
  /\ seenCoefficientsVersion' = coefficientsVersion
  /\ strategiesBeforeEffect' = appSimulationStrategies
  /\ coefficientEvent' = "effect"
  /\ IF /\ Len(appSimulationStrategies) > 0
        /\ Len(appTokenCoefficients) > 0
        /\ hasNewTokens(ensureAllTokensInStrategies(appSimulationStrategies, appTokenCoefficients),
                        appSimulationStrategies)
     THEN /\ appSimulationStrategies' =
               ensureAllTokensInStrategies(appSimulationStrategies, appTokenCoefficients)
          /\ coefficientUpdates' = coefficientUpdates + 1
     ELSE UNCHANGED <<appSimulationStrategies, coefficientUpdates>>
  /\ UNCHANGED <<appTokenCoefficients, coefficientsVersion>>
  /\ UNCHANGED notCoefficientVars

\* a render with the same tokenCoefficients array, after the user removed the
\* last token of a strategy: the effect does not run
RemoveLastToken ==
  /\ seenCoefficientsVersion = coefficientsVersion
  /\ coefficientEvent # "edit"
  /\ \E i \in 1..Len(appSimulationStrategies) :
       /\ Len(appSimulationStrategies[i].tokenWeights) > 0
       /\ appSimulationStrategies' =
            [appSimulationStrategies EXCEPT
               ![i].tokenWeights = SubSeq(@, 1, Len(@) - 1)]
  /\ coefficientEvent' = "edit"
  /\ UNCHANGED <<appTokenCoefficients, coefficientsVersion, seenCoefficientsVersion,
                 coefficientUpdates, strategiesBeforeEffect>>
  /\ UNCHANGED notCoefficientVars

NextCoefficients == ChangeTokenCoefficients \/ RunCoefficientEffect \/ RemoveLastToken

SpecCoefficients == InitCoefficients /\ [][NextCoefficients]_vars

\* C30: ensureAllTokensInStrategies only appends: after the effect ran with
\* strategies and coefficients, every strategy has an entry for every
\* coefficient token (compared without regard to case), the entries it had are
\* unchanged and in place, a second application changes nothing, and the
\* effect has set simulationStrategies at most once since the coefficients
\* changed.
C30_EnsureOnlyAppendsOnce ==
  /\ coefficientUpdates <= 1
  /\ (coefficientEvent = "effect" /\ Len(strategiesBeforeEffect) > 0
        /\ Len(appTokenCoefficients) > 0) =>
       /\ Len(appSimulationStrategies) = Len(strategiesBeforeEffect)
       /\ \A i \in 1..Len(appSimulationStrategies) :
            /\ appSimulationStrategies[i].id = strategiesBeforeEffect[i].id
            /\ Len(appSimulationStrategies[i].tokenWeights)
                 >= Len(strategiesBeforeEffect[i].tokenWeights)
            /\ SubSeq(appSimulationStrategies[i].tokenWeights, 1,
                      Len(strategiesBeforeEffect[i].tokenWeights))
                 = strategiesBeforeEffect[i].tokenWeights
            /\ \A coeff \in Range(appTokenCoefficients) :
                 \E tw \in Range(appSimulationStrategies[i].tokenWeights) :
                   toLowerCase(tw.token) = toLowerCase(coeff.token)
       /\ ensureAllTokensInStrategies(appSimulationStrategies, appTokenCoefficients)
            = appSimulationStrategies

\* the effect appended a token to a strategy that already had another one
C30_Witness ==
  /\ coefficientEvent = "effect"
  /\ coefficientUpdates = 1
  /\ \E i \in 1..Len(appSimulationStrategies) :
       /\ Len(strategiesBeforeEffect[i].tokenWeights) = 1
       /\ Len(appSimulationStrategies[i].tokenWeights) = 2

====
